---- MODULE Spec2Model ----
(***************************************************************************)
(* A model of const_qoi: the streaming QOI decoder (src/src/decoder.rs),   *)
(* the streaming QOI encoder (src/src/encoder.rs) and the pixel, buffer    *)
(* and header helpers they share.                                          *)
(*                                                                         *)
(* Rust arrays are modelled as sequences: Rust index i is element i + 1.   *)
(* A panic (index out of bounds, arithmetic overflow under overflow        *)
(* checks, unreachable!()) is modelled by the field "panic" of the state   *)
(* records: once set, the call that set it never returns a value.          *)
(***************************************************************************)
EXTENDS Integers, Sequences, FiniteSets, TLC

VARIABLES
    overflow_checks, \* build profile: TRUE = overflow checks on (debug), FALSE = wrapping (release)
    dec_header,      \* the header slice handed to QoiDecoder::init
    dec_N,           \* the const generic N of the decoder (length of the caller's buffer)
    dec,             \* QoiDecoderInternal, as left by the last decoder call
    dec_status,      \* "idle" | "new" | "Ready" (QoiDecoderReady) | "Continue" (QoiDecoder) | "Finished" | "Err" | "Panic"
    dec_result,      \* what the last decoder call returned
    dec_stream,      \* the bytes the caller will feed (chunks, then the trailer)
    dec_fed,         \* how many bytes of dec_stream have been fed
    dec_first,       \* the length of the first slice the caller feeds
    dec_block,       \* the length of the slices after the first (the last one may be shorter)
    dec_pixels,      \* every output the caller drained, concatenated
    dec_hist,        \* observations about the last call, for the properties
    img,             \* the encoder's caller: pixel bytes, width, height, channels, colorspace
    enc_N,           \* the const generic N of process_pixels (length of the output array)
    enc,             \* QoiEncoderInternal, as left by the last encoder call
    enc_status,      \* "idle" | "new" | "Ready" (QoiEncoder) | "Finished" | "Err" | "Panic"
    enc_header,      \* the bytes of the QoiHeader QoiEncoder::new returned
    enc_result,      \* what the last encoder call returned
    enc_bytes,       \* every valid output byte the caller drained, concatenated
    enc_hist,        \* observations about the last call, for the properties
    hdr,             \* a header's caller: the fields, the bytes of to_u8, what extract returned
    px               \* a pixel's caller: two pixels, the chunks of diff and luma, the hash, the decoded pixels

dec_vars == <<dec_header, dec_N, dec, dec_status, dec_result, dec_stream, dec_fed,
              dec_first, dec_block, dec_pixels, dec_hist>>
enc_vars == <<img, enc_N, enc, enc_status, enc_header, enc_result, enc_bytes, enc_hist>>
vars == <<overflow_checks, dec_vars, enc_vars, hdr, px>>

(***************************************************************************)
(* Bytes and sequences                                                     *)
(***************************************************************************)
wrapping_add(a, b) == (a + b) % 256

wrapping_sub(a, b) == (a - b + 256) % 256

RECURSIVE Repeat(_, _)
Repeat(x, n) == IF n <= 0 THEN <<>> ELSE <<x>> \o Repeat(x, n - 1)

Take(s, n) == SubSeq(s, 1, n)

Drop(s, n) == SubSeq(s, n + 1, Len(s))

IsPrefix(s, t) == Len(s) <= Len(t) /\ Take(t, Len(s)) = s

RECURSIVE Flatten(_)
Flatten(ss) == IF ss = <<>> THEN <<>> ELSE Head(ss) \o Flatten(Tail(ss))

(***************************************************************************)
(* consts.rs, utils.rs                                                     *)
(***************************************************************************)
Pixel_new(red, green, blue, alpha) ==
    [red |-> red, green |-> green, blue |-> blue, alpha |-> alpha]

MAGIC_BYTES == <<113, 111, 105, 102>>

END_MARKER == <<0, 0, 0, 0, 0, 0, 0, 1>>

DEFAULT_PIXEL == Pixel_new(0, 0, 0, 255)

ZERO_PIXEL == Pixel_new(0, 0, 0, 0)

\* is_identical walks first's indices and compares with second at each
is_identical(first, second) ==
    \A i \in 1..Len(first) : first[i] = second[i]

\* array_from_input::<n>(input, input_index): n bytes from Rust index input_index
array_from_input(input, input_index, n) ==
    [i \in 1..n |-> input[input_index + i]]

\* a hash that leaves the alpha channel out
hash_without_alpha(p) ==
    (p.red * 3 + p.green * 5 + p.blue * 7) % 64

(***************************************************************************)
(* pixel.rs                                                                *)
(***************************************************************************)
calculate_hash_index(p) ==
    (p.red * 3 + p.green * 5 + p.blue * 7 + p.alpha * 11) % 64

to_array(p) == <<p.red, p.green, p.blue, p.alpha>>

is_same(p, other) ==
    /\ p.red = other.red
    /\ p.green = other.green
    /\ p.blue = other.blue
    /\ p.alpha = other.alpha

None == <<>>

\* differences taken without wrapping
diff_unwrapped(p, old) ==
    LET red == p.red - old.red + 2
        green == p.green - old.green + 2
        blue == p.blue - old.blue + 2
    IN  IF red > 3 \/ green > 3 \/ blue > 3 THEN None
        ELSE <<64 + red * 16 + green * 4 + blue>>

\* Option<u8>: None or <<byte>>
diff(p, old) ==
    LET red == wrapping_add(wrapping_sub(p.red, old.red), 2)
        green == wrapping_add(wrapping_sub(p.green, old.green), 2)
        blue == wrapping_add(wrapping_sub(p.blue, old.blue), 2)
    IN  IF red > 3 \/ green > 3 \/ blue > 3 THEN None
        ELSE <<64 + red * 16 + green * 4 + blue>>

\* Option<(u8, u8)>: None or <<first, second>>
luma(p, old) ==
    LET red_diff == wrapping_sub(p.red, old.red)
        green_diff == wrapping_sub(p.green, old.green)
        blue_diff == wrapping_sub(p.blue, old.blue)
        red == wrapping_sub(wrapping_add(red_diff, 8), green_diff)
        green == wrapping_add(green_diff, 32)
        blue == wrapping_sub(wrapping_add(blue_diff, 8), green_diff)
    IN  IF red > 15 \/ green > 63 \/ blue > 15 THEN None
        ELSE <<128 + green, red * 16 + blue>>

(***************************************************************************)
(* buffer.rs                                                               *)
(***************************************************************************)
\* QoiInputBuffer::write_bytes
write_bytes(buf, input) ==
    [data |-> [i \in 1..Len(buf.data) |-> IF i <= Len(input) THEN input[i] ELSE buf.data[i]],
     capacity |-> Len(input),
     index |-> 0]

\* QoiInputBuffer::read_byte: the buffer after the read, and the byte
read_byte(buf) ==
    [buf |-> [buf EXCEPT !.index = @ + 1], byte |-> buf.data[buf.index + 1]]

\* QoiOutputBuffer::append_bytes: writes byte by byte; a write at index N panics
append_bytes(buf, input) ==
    LET n == Len(buf.data)
        start == n - buf.space
        fits == IF Len(input) <= buf.space THEN Len(input) ELSE buf.space
    IN  [buf |-> [data |-> [i \in 1..n |->
                              IF i > start /\ i <= start + fits
                              THEN input[i - start] ELSE buf.data[i]],
                  space |-> buf.space - fits],
         panic |-> Len(input) > buf.space]

\* handing the array back without emptying the window
get_all_bytes_keep(buf) == [buf |-> buf, bytes |-> buf.data]

\* QoiOutputBuffer::get_all_bytes: the buffer after the call, and the array
get_all_bytes(buf) ==
    [buf |-> [buf EXCEPT !.space = Len(buf.data)], bytes |-> buf.data]

(***************************************************************************)
(* error.rs: a QoiError is its variant's name and its fields               *)
(***************************************************************************)
QoiError(name, args) == [err |-> name, args |-> args]

Ok(value) == [ok |-> TRUE, value |-> value]

Err(e) == [ok |-> FALSE, error |-> e]

(***************************************************************************)
(* header.rs                                                               *)
(***************************************************************************)
\* the four bytes of a u32, least significant first
to_le_bytes(x) ==
    <<x % 256, (x \div 256) % 256, (x \div 65536) % 256, (x \div 16777216) % 256>>

from_be_bytes(b) == b[1] * 16777216 + b[2] * 65536 + b[3] * 256 + b[4]

to_be_bytes(x) ==
    <<(x \div 16777216) % 256, (x \div 65536) % 256, (x \div 256) % 256, x % 256>>

\* QoiHeaderInternal::new
QoiHeaderInternal_new(width, height, channels, colorspace) ==
    [magic_bytes |-> MAGIC_BYTES, width |-> width, height |-> height,
     channels |-> channels, colorspace |-> colorspace]

\* QoiHeaderInternal::extract
extract(input) ==
    LET magic_bytes == array_from_input(input, 0, 4)
        width == from_be_bytes(array_from_input(input, 4, 4))
        height == from_be_bytes(array_from_input(input, 8, 4))
        channels == input[13]
        colorspace == input[14]
    IN  IF ~is_identical(magic_bytes, MAGIC_BYTES)
        THEN Err(QoiError("InvalidMagicBytes", magic_bytes))
        ELSE IF width = 0 \/ height = 0
        THEN Err(QoiError("InvalidWidthHeight", <<width, height>>))
        ELSE IF channels # 3 /\ channels # 4
        THEN Err(QoiError("InvalidChannelsValue", <<channels>>))
        ELSE IF colorspace # 0 /\ colorspace # 1
        THEN Err(QoiError("InvalidColorspaceValue", <<colorspace>>))
        ELSE Ok([magic_bytes |-> magic_bytes, width |-> width, height |-> height,
                 channels |-> channels, colorspace |-> colorspace])

\* QoiHeader::to_u8
to_u8(header) ==
    header.magic_bytes \o to_be_bytes(header.width) \o to_be_bytes(header.height)
        \o <<header.channels, header.colorspace>>

(***************************************************************************)
(* decoder.rs: PartialChunk is the sequence of the bytes it holds, the tag  *)
(* first: OneByte = 1 element, ..., FourBytes = 4; None is the empty one.   *)
(***************************************************************************)
get_tag(partial) == partial[1]

\* PartialChunk::add_byte: Some(the next larger variant); FourBytes is unreachable!()
add_byte(partial, byte) == Append(partial, byte)

add_byte_unreachable(partial) == Len(partial) >= 4

\* a decoder that starts from the zero pixel
QoiDecoderInternal_new_zero_previous(pixel_amount, data) ==
    [input |-> [data |-> data, capacity |-> 0, index |-> 0],
     output |-> [data |-> data, space |-> Len(data)],
     seen_pixels |-> [i \in 0..63 |-> ZERO_PIXEL],
     previous_pixel |-> ZERO_PIXEL,
     pixel_amount |-> pixel_amount,
     run_amount |-> 0,
     partial_chunk |-> None,
     panic |-> FALSE]

\* QoiDecoderInternal::new
QoiDecoderInternal_new(pixel_amount, data) ==
    [input |-> [data |-> data, capacity |-> 0, index |-> 0],
     output |-> [data |-> data, space |-> Len(data)],
     seen_pixels |-> [i \in 0..63 |-> ZERO_PIXEL],
     previous_pixel |-> DEFAULT_PIXEL,
     pixel_amount |-> pixel_amount,
     run_amount |-> 0,
     partial_chunk |-> None,
     panic |-> FALSE]

\* the capacity check of QoiDecoder::init (line 43)
bad_buffer_size(n) == n < 16 /\ n % 4 # 0

\* QoiDecoder::init
QoiDecoder_init(header_input, buffer) ==
    IF bad_buffer_size(Len(buffer))
    THEN Err(QoiError("BadBufferSize", <<Len(buffer)>>))
    ELSE IF Len(header_input) # 14
    THEN Err(QoiError("BadHeaderSize", <<Len(header_input)>>))
    ELSE LET header == extract(header_input)
         IN  IF header.ok
             THEN Ok([header |-> header.value,
                      data |-> QoiDecoderInternal_new(
                                   header.value.width * header.value.height, buffer)])
             ELSE header

dec_all_pixels_processed(d) == d.pixel_amount = 0

all_input_processed(d) == d.input.index = d.input.capacity

get_end_bytes_from_input(d) == array_from_input(d.input.data, d.input.index, 8)

\* self.pixel_amount -= 1 on a u64: at 0 it panics under overflow checks and
\* wraps otherwise. A wrapped value is kept as its representative below 0
\* (-1 stands for 2^64 - 1), which decrements and compares with 0 alike.
dec_pixel_amount(d) ==
    IF d.pixel_amount = 0 /\ overflow_checks
    THEN [d EXCEPT !.panic = TRUE]
    ELSE [d EXCEPT !.pixel_amount = @ - 1]

\* (self.input, byte) = self.input.read_byte()
dec_read(d) == [d EXCEPT !.input = read_byte(d.input).buf]

dec_byte(d) == read_byte(d.input).byte

\* self.output = self.output.append_bytes(&pixel.to_array())
dec_append(d, pixel) ==
    LET r == append_bytes(d.output, to_array(pixel))
    IN  [d EXCEPT !.output = r.buf, !.panic = @ \/ r.panic]

\* the result triple (self, current_pixel, should_break) of process_pixel/_rgb/_rgba
Triple(d, pixel, should_break) == [d |-> d, pixel |-> pixel, should_break |-> should_break]

set_partial(d, part, byte) ==
    [d EXCEPT !.partial_chunk = add_byte(part, byte),
              !.panic = @ \/ add_byte_unreachable(part)]

\* process_rgb, once a third body byte has been read (lines 266-267)
process_rgb_three(d, current_pixel, one, two, three) ==
    Triple(d, Pixel_new(one, two, three, current_pixel.alpha), FALSE)

\* process_rgb, once a second byte has been read (lines 259-268)
process_rgb_two(d, current_pixel, one, two, part) ==
    IF Len(part) = 2
    THEN Triple(d, Pixel_new(part[2], one, two, current_pixel.alpha), FALSE)
    ELSE IF all_input_processed(d)
    THEN Triple(set_partial(set_partial(d, part, one), part, two), current_pixel, TRUE)
    ELSE process_rgb_three(dec_read(d), current_pixel, one, two, dec_byte(d))

\* QoiDecoderInternal::process_rgb
process_rgb(d, current_pixel, one, part) ==
    IF Len(part) = 3
    THEN Triple(d, Pixel_new(part[2], part[3], one, current_pixel.alpha), FALSE)
    ELSE IF all_input_processed(d)
    THEN Triple(set_partial(d, part, one), current_pixel, TRUE)
    ELSE process_rgb_two(dec_read(d), current_pixel, one, dec_byte(d), part)

\* process_rgba, once a third byte has been read (lines 236-244)
process_rgba_three(d, tag, current_pixel, one, two, three, part) ==
    IF Len(part) = 2
    THEN Triple(d, Pixel_new(part[2], one, two, three), FALSE)
    ELSE IF all_input_processed(d)
    THEN Triple([d EXCEPT !.partial_chunk = <<tag, one, two, three>>], current_pixel, TRUE)
    ELSE Triple(dec_read(d), Pixel_new(one, two, three, dec_byte(d)), FALSE)

\* process_rgba, once a second byte has been read (lines 228-245)
process_rgba_two(d, tag, current_pixel, one, two, part) ==
    IF Len(part) = 3
    THEN Triple(d, Pixel_new(part[2], part[3], one, two), FALSE)
    ELSE IF all_input_processed(d)
    THEN Triple(set_partial(set_partial(d, part, one), part, two), current_pixel, TRUE)
    ELSE process_rgba_three(dec_read(d), tag, current_pixel, one, two, dec_byte(d), part)

\* QoiDecoderInternal::process_rgba
process_rgba(d, tag, current_pixel, one, part) ==
    IF Len(part) = 4
    THEN Triple(d, Pixel_new(part[2], part[3], part[4], one), FALSE)
    ELSE IF all_input_processed(d)
    THEN Triple(set_partial(d, part, one), current_pixel, TRUE)
    ELSE process_rgba_two(dec_read(d), tag, current_pixel, one, dec_byte(d), part)

\* line 195: how many unread bytes process_pixel wants to see after the first body byte
body_bytes_expected(tag) == IF tag = 255 THEN 4 ELSE 3

\* process_pixel without a partial chunk, once a third byte has been read (lines 204-211)
process_pixel_three(d, tag, current_pixel, one, two, three, should_break) ==
    IF tag = 255
    THEN IF all_input_processed(d)
         THEN Triple([d EXCEPT !.partial_chunk = <<tag, one, two, three>>],
                     current_pixel, should_break)
         ELSE Triple(dec_read(d), Pixel_new(one, two, three, dec_byte(d)), should_break)
    ELSE Triple(d, Pixel_new(one, two, three, current_pixel.alpha), should_break)

\* process_pixel without a partial chunk, once a second byte has been read (lines 200-212)
process_pixel_two(d, tag, current_pixel, one, two, should_break) ==
    IF all_input_processed(d)
    THEN Triple([d EXCEPT !.partial_chunk = <<tag, one, two>>], current_pixel, should_break)
    ELSE process_pixel_three(dec_read(d), tag, current_pixel, one, two, dec_byte(d),
                             should_break)

\* process_pixel without a partial chunk, after line 195 set should_break (lines 196-213)
process_pixel_one(d, tag, current_pixel, one, should_break) ==
    IF all_input_processed(d)
    THEN Triple([d EXCEPT !.partial_chunk = <<tag, one>>], current_pixel, should_break)
    ELSE process_pixel_two(dec_read(d), tag, current_pixel, one, dec_byte(d), should_break)

\* process_pixel, once the first byte after the tag has been read (lines 191-214)
process_pixel_read(d, tag, current_pixel, one) ==
    IF d.partial_chunk # None
    THEN IF tag = 255
         THEN process_rgba(d, tag, current_pixel, one, d.partial_chunk)
         ELSE process_rgb(d, current_pixel, one, d.partial_chunk)
    ELSE process_pixel_one(d, tag, current_pixel, one,
             (d.input.capacity - d.input.index) < body_bytes_expected(tag))

\* QoiDecoderInternal::process_pixel
process_pixel(d, tag, current_pixel) ==
    IF all_input_processed(d)
    THEN Triple([d EXCEPT !.partial_chunk = <<tag>>], current_pixel, TRUE)
    ELSE process_pixel_read(dec_read(d), tag, current_pixel, dec_byte(d))

\* one pass of the inner loop of the QOI_OP_RUN arm, after the append (lines 149-150)
run_counted(d) ==
    IF d.panic THEN d ELSE [d EXCEPT !.run_amount = @ - 1]

run_appended(d) ==
    IF d.panic THEN d ELSE run_counted(dec_pixel_amount(d))

\* the inner loop of the QOI_OP_RUN arm (lines 147-151)
RECURSIVE run_loop(_, _)
run_loop(d, current_pixel) ==
    IF d.panic \/ ~(d.run_amount # 0 /\ d.output.space # 0)
    THEN d
    ELSE run_loop(run_appended(dec_append(d, current_pixel)), current_pixel)

\* a run length without the bias of 1: what a decoder that forgot it would use
run_length_unbiased(tag) == tag % 64

\* the run length a QOI_OP_RUN tag stands for (line 146)
run_length(tag) == (tag % 64) + 1

\* line 146: a run tag starts a run only when none is being expanded
start_run(d, tag) ==
    IF d.run_amount = 0 THEN [d EXCEPT !.run_amount = run_length(tag)] ELSE d

\* lines 133-137: the tag of this iteration and the decoder after fetching it
fetch_tag(d) ==
    IF d.partial_chunk # None
    THEN [d |-> d, tag |-> get_tag(d.partial_chunk)]
    ELSE IF d.run_amount > 0
    THEN [d |-> d, tag |-> d.input.data[d.input.index + 1]]
    ELSE [d |-> dec_read(d), tag |-> dec_byte(d)]

\* the pixel of the QOI_OP_LUMA arm (lines 156-161)
luma_pixel(tag, red_and_blue, current_pixel) ==
    Pixel_new(
        wrapping_add(current_pixel.red,
            wrapping_add(wrapping_sub(wrapping_sub(tag % 64, 32), 8),
                         (red_and_blue \div 16) % 16)),
        wrapping_add(current_pixel.green, wrapping_sub(tag % 64, 32)),
        wrapping_add(current_pixel.blue,
            wrapping_add(wrapping_sub(wrapping_sub(tag % 64, 32), 8),
                         red_and_blue % 16)),
        current_pixel.alpha)

\* the pixel of the QOI_OP_DIFF arm (lines 165-167)
diff_pixel(tag, current_pixel) ==
    Pixel_new(wrapping_sub(wrapping_add(current_pixel.red, (tag \div 16) % 4), 2),
              wrapping_sub(wrapping_add(current_pixel.green, (tag \div 4) % 4), 2),
              wrapping_sub(wrapping_add(current_pixel.blue, tag % 4), 2),
              current_pixel.alpha)

\* what an arm of the match leaves: the decoder, the pixel, run, and whether it broke
Arm(d, pixel, run, brk) == [d |-> d, pixel |-> pixel, run |-> run, brk |-> brk]

arm_of_triple(t) == Arm(t.d, t.pixel, FALSE, t.should_break)

\* the match of process_chunks on the tag (lines 138-172)
match_tag(d, tag, current_pixel) ==
    IF tag >= 254
    THEN arm_of_triple(process_pixel(d, tag, current_pixel))
    ELSE IF tag >= 192
    THEN Arm(run_loop(start_run(d, tag), current_pixel), current_pixel, TRUE, FALSE)
    ELSE IF tag >= 128
    THEN IF all_input_processed(d)
         THEN Arm([d EXCEPT !.partial_chunk = <<tag>>], current_pixel, FALSE, TRUE)
         ELSE Arm([dec_read(d) EXCEPT !.partial_chunk = None],
                  luma_pixel(tag, dec_byte(d), current_pixel), FALSE, FALSE)
    ELSE IF tag >= 64
    THEN Arm(d, diff_pixel(tag, current_pixel), FALSE, FALSE)
    ELSE Arm(d, d.seen_pixels[tag], FALSE, FALSE)

\* lines 177-179: the pixel enters the dictionary and becomes the previous one
remember(d, current_pixel) ==
    IF d.panic THEN d
    ELSE [d EXCEPT !.seen_pixels[calculate_hash_index(current_pixel)] = current_pixel,
                   !.previous_pixel = current_pixel]

emit_counted(d, current_pixel) ==
    IF d.panic THEN d ELSE dec_append(d, current_pixel)

\* lines 173-176: a pixel that did not come from a run is counted and appended
emit(d, current_pixel, run) ==
    IF run THEN d ELSE emit_counted(dec_pixel_amount(d), current_pixel)

\* lines 173-179, unless the arm broke out of the loop
finish_chunk(a) ==
    IF a.brk \/ a.d.panic
    THEN [d |-> a.d, brk |-> TRUE]
    ELSE [d |-> remember(emit(a.d, a.pixel, a.run), a.pixel), brk |-> FALSE]

tagged(f) == match_tag(f.d, f.tag, f.d.previous_pixel)

\* one iteration of the loop of process_chunks: the decoder after it, and
\* whether the iteration left the loop by break
chunk_step(d) == finish_chunk(tagged(fetch_tag(d)))

\* the loop condition of process_chunks (line 132)
chunks_left(d) ==
    d.pixel_amount # 0 /\ ~all_input_processed(d) /\ d.output.space # 0

\* QoiDecoderInternal::process_chunks
RECURSIVE process_chunks(_)
chunks_next(r) == IF r.brk THEN r.d ELSE process_chunks(r.d)

process_chunks(d) ==
    IF d.panic \/ ~chunks_left(d) THEN d ELSE chunks_next(chunk_step(d))

\* Option<([u8; N], usize)>
Some(x) == <<x>>

\* an end-marker verdict that looks at the first 8 unread bytes only and so
\* lets bytes after the marker pass
end_marker_check_lenient(d, output) ==
    IF d.input.capacity - d.input.index >= 8
    THEN IF is_identical(get_end_bytes_from_input(d), END_MARKER)
         THEN Ok([progress |-> "Finished", output |-> output])
         ELSE Err(QoiError("BadEndMarkerBytes", get_end_bytes_from_input(d)))
    ELSE Ok([progress |-> "AwaitInput", output |-> output])

\* the end-marker verdict of continue_processing (lines 116-123)
end_marker_check(d, output) ==
    IF d.input.capacity - d.input.index > 8
    THEN Err(QoiError("BadEndMarkerSize", <<d.input.capacity - d.input.index>>))
    ELSE IF d.input.capacity - d.input.index = 8
    THEN IF is_identical(get_end_bytes_from_input(d), END_MARKER)
         THEN Ok([progress |-> "Finished", output |-> output])
         ELSE Err(QoiError("BadEndMarkerBytes", get_end_bytes_from_input(d)))
    ELSE Ok([progress |-> "AwaitInput", output |-> output])

\* a verdict that asks the caller to continue whenever pixels are owed,
\* whether or not input is left
progress_of_eager(d, output) ==
    IF dec_all_pixels_processed(d) THEN end_marker_check(d, output)
    ELSE Ok([progress |-> "ContinueProcessing", output |-> output])

\* lines 115-128: what continue_processing returns
progress_of(d, output) ==
    IF dec_all_pixels_processed(d) THEN end_marker_check(d, output)
    ELSE IF all_input_processed(d)
    THEN Ok([progress |-> "AwaitInput", output |-> output])
    ELSE Ok([progress |-> "ContinueProcessing", output |-> output])

\* lines 112-114: the output of the step, None when the window is empty
output_of(d) ==
    IF Len(d.output.data) - d.output.space = 0 THEN None
    ELSE Some([bytes |-> get_all_bytes(d.output).bytes,
               amount |-> Len(d.output.data) - d.output.space])

\* continue_processing after process_chunks (lines 112-128)
processed(d) ==
    IF d.panic THEN [data |-> d, ret |-> [ok |-> FALSE, panic |-> TRUE]]
    ELSE [data |-> [d EXCEPT !.output = get_all_bytes(d.output).buf],
          ret |-> progress_of(d, output_of(d))]

\* QoiDecoderInternal::continue_processing: the decoder it leaves (consumed
\* by Finished and Err, kept here for the properties) and what it returns
continue_processing(d) == processed(process_chunks(d))

\* a feed that also turns away a slice of exactly N bytes
input_bytes_to_process_strict(d, input) ==
    IF Len(input) = 0 \/ Len(input) >= Len(d.output.data)
    THEN [data |-> d,
          ret |-> Err(QoiError("BadInputSize", <<Len(input), Len(d.output.data)>>))]
    ELSE continue_processing([d EXCEPT !.input = write_bytes(d.input, input)])

\* QoiDecoderReady::input_bytes_to_process
input_bytes_to_process(d, input) ==
    IF Len(input) = 0 \/ Len(input) > Len(d.output.data)
    THEN [data |-> d,
          ret |-> Err(QoiError("BadInputSize", <<Len(input), Len(d.output.data)>>))]
    ELSE continue_processing([d EXCEPT !.input = write_bytes(d.input, input)])

(***************************************************************************)
(* encoder.rs                                                              *)
(***************************************************************************)
\* QoiEncoderInternal::new
QoiEncoderInternal_new(pixel_amount, alpha) ==
    [byte_index |-> 0,
     seen_pixels |-> [i \in 0..63 |-> ZERO_PIXEL],
     previous_pixel |-> DEFAULT_PIXEL,
     pixel_amount |-> pixel_amount,
     alpha |-> alpha,
     output_buffer_space |-> 0,
     panic |-> FALSE]

\* lines 62-64: the pixel amount and the pixel width the input's length stands for
actual_pixel_amount(len, specified) ==
    IF len \div 3 = specified THEN len \div 3 ELSE len \div 4

real_channels(len, specified) == IF len \div 3 = specified THEN 3 ELSE 4

\* QoiEncoder::new
QoiEncoder_new(input, width, height, channels, colorspace) ==
    IF width = 0 \/ height = 0
    THEN Err(QoiError("InvalidWidthHeight", <<width, height>>))
    ELSE IF channels # 3 /\ channels # 4
    THEN Err(QoiError("InvalidChannelsValue", <<channels>>))
    ELSE IF colorspace # 0 /\ colorspace # 1
    THEN Err(QoiError("InvalidColorspaceValue", <<colorspace>>))
    ELSE IF Len(input) % channels # 0
    THEN Err(QoiError("IncorrectInputData", <<Len(input), channels>>))
    ELSE IF width * height # Len(input) \div 3 /\ width * height # Len(input) \div 4
    THEN Err(QoiError("InputHeaderMismatch",
                      <<width, height, actual_pixel_amount(Len(input), width * height)>>))
    ELSE Ok([header |-> QoiHeaderInternal_new(width, height, channels, colorspace),
             state |-> QoiEncoderInternal_new(
                           width * height, real_channels(Len(input), width * height) # 3)])

is_byte_index_safe(e, input) == e.byte_index < Len(input)

\* the bytes advance_input_pixel reads: 4 with alpha, 3 without
pixel_width(e) == IF e.alpha THEN 4 ELSE 3

\* QoiEncoderInternal::advance_input_pixel: the encoder after it and the
\* pixel; an index past the end of input panics
advance_input_pixel(e, input) ==
    IF e.byte_index + pixel_width(e) > Len(input)
    THEN [e |-> [e EXCEPT !.panic = TRUE], pixel |-> ZERO_PIXEL]
    ELSE [e |-> [e EXCEPT !.byte_index = @ + pixel_width(e)],
          pixel |-> Pixel_new(input[e.byte_index + 1], input[e.byte_index + 2],
                              input[e.byte_index + 3],
                              IF e.alpha THEN input[e.byte_index + 4]
                              ELSE e.previous_pixel.alpha)]

\* a rewind that leaves byte_index where it is, so that the pixel is skipped
rewind_nothing(e) == e

\* a rewind by the width of an RGB pixel whatever the input's pixel width
rewind_three_bytes(e) == [e EXCEPT !.byte_index = @ - 3]

\* QoiEncoderInternal::rewind_input_index
rewind_input_index(e) == [e EXCEPT !.byte_index = @ - pixel_width(e)]

\* self.pixel_amount -= 1 on a u64, as in the decoder
enc_pixel_amount(e) ==
    IF e.pixel_amount = 0 /\ overflow_checks
    THEN [e EXCEPT !.panic = TRUE]
    ELSE [e EXCEPT !.pixel_amount = @ - 1]

\* a cap one higher, which lets a run chunk stand for 63 pixels
run_may_grow_once_more(run) == run < 62

\* line 189: run < 61, the bias -1 making 61 a run of 62
run_may_grow(run) == run < 61

\* the loop of run_chunk (lines 187-195): the encoder after it and the run
RECURSIVE run_scan(_, _, _)
run_scanned(a, input, run) ==
    IF a.e.panic THEN [e |-> a.e, run |-> run]
    ELSE IF is_same(a.e.previous_pixel, a.pixel) /\ run_may_grow(run)
    THEN run_scan(enc_pixel_amount(a.e), input, run + 1)
    ELSE [e |-> rewind_input_index(a.e), run |-> run]

run_scan(e, input, run) ==
    IF e.panic \/ ~is_byte_index_safe(e, input)
    THEN [e |-> e, run |-> run]
    ELSE run_scanned(advance_input_pixel(e, input), input, run)

\* what an arm of the encoder's loop leaves: the encoder, the output array,
\* the output index, and whether it left the loop by break
Wrote(e, output, output_index, brk) ==
    [e |-> e, output |-> output, output_index |-> output_index, brk |-> brk]

\* lines 196-198: the run chunk is written (run | 0xc0 with run below 64)
run_written(r, output, output_index) ==
    Wrote(r.e, [output EXCEPT ![output_index + 1] = 192 + r.run], output_index + 1, FALSE)

\* QoiEncoderInternal::run_chunk
run_chunk(e, input, output, output_index) ==
    run_written(run_scan(e, input, 0), output, output_index)

\* the bytes rgb_to_output and rgba_to_output write
rgb_to_output(p) == <<254, p.red, p.green, p.blue>>

rgba_to_output(p) == <<255, p.red, p.green, p.blue, p.alpha>>

\* chunk bytes written at output_index, or rewind and break when fewer than
\* Len(bytes) bytes are free (lines 142, 148, 152)
write_chunk(e, output, output_index, bytes) ==
    IF Len(output) - output_index < Len(bytes)
    THEN Wrote(rewind_input_index(e), output, output_index, TRUE)
    ELSE Wrote(e, [i \in 1..Len(output) |->
                      IF i > output_index /\ i <= output_index + Len(bytes)
                      THEN bytes[i - output_index] ELSE output[i]],
               output_index + Len(bytes), FALSE)

\* lines 128-154: the chunk of new_pixel
encode_pixel(e, input, output, output_index, new_pixel, index) ==
    IF is_same(e.seen_pixels[index], new_pixel)
    THEN IF is_same(e.previous_pixel, new_pixel)
         THEN run_chunk(e, input, output, output_index)
         ELSE write_chunk(e, output, output_index, <<index>>)
    ELSE IF new_pixel.alpha = e.previous_pixel.alpha
    THEN IF e.byte_index = 3 \/ e.byte_index = 4
         THEN run_chunk(e, input, output, output_index)
         ELSE IF diff(new_pixel, e.previous_pixel) # None
         THEN write_chunk(e, output, output_index, diff(new_pixel, e.previous_pixel))
         ELSE IF luma(new_pixel, e.previous_pixel) # None
         THEN write_chunk(e, output, output_index, luma(new_pixel, e.previous_pixel))
         ELSE write_chunk(e, output, output_index, rgb_to_output(new_pixel))
    ELSE write_chunk(e, output, output_index, rgba_to_output(new_pixel))

pixel_counted(e, new_pixel, index) ==
    IF e.panic THEN e
    ELSE [e EXCEPT !.previous_pixel = new_pixel, !.seen_pixels[index] = new_pixel]

\* a loop that goes on to the next pixel when the output array is full
pixel_done_no_break(w, new_pixel, index) ==
    IF w.brk \/ w.e.panic THEN [w EXCEPT !.brk = TRUE]
    ELSE Wrote(pixel_counted(enc_pixel_amount(w.e), new_pixel, index), w.output,
               w.output_index, FALSE)

\* lines 155-158, unless the arm broke out of the loop
pixel_done(w, new_pixel, index) ==
    IF w.brk \/ w.e.panic THEN [w EXCEPT !.brk = TRUE]
    ELSE Wrote(pixel_counted(enc_pixel_amount(w.e), new_pixel, index), w.output,
               w.output_index, w.output_index = Len(w.output))

advanced(a, input, output, output_index) ==
    IF a.e.panic THEN Wrote(a.e, output, output_index, TRUE)
    ELSE pixel_done(encode_pixel(a.e, input, output, output_index, a.pixel,
                                 calculate_hash_index(a.pixel)),
                    a.pixel, calculate_hash_index(a.pixel))

\* the loop of QoiEncoderInternal::process_pixels (lines 124-159)
RECURSIVE pixels_loop(_, _)
pixels_next(w, input) ==
    pixels_loop(advanced(advance_input_pixel(w.e, input), input, w.output, w.output_index),
                input)

pixels_loop(w, input) ==
    IF w.brk \/ w.e.panic \/ w.e.pixel_amount = 0 THEN w ELSE pixels_next(w, input)

\* an encoder that reports no free space whatever it wrote
pixels_processed_full(w) ==
    [e |-> [w.e EXCEPT !.output_buffer_space = 0], output |-> w.output]

\* lines 160-161
pixels_processed(w) ==
    [e |-> [w.e EXCEPT !.output_buffer_space = Len(w.output) - w.output_index],
     output |-> w.output]

\* QoiEncoderInternal::process_pixels
internal_process_pixels(e, input, output) ==
    pixels_processed(pixels_loop(Wrote(e, output, 0, FALSE), input))

\* lines 86-92: Finished(output, empty) or Unfinished(self, output, empty)
progress(r) ==
    IF r.e.panic THEN [state |-> r.e, ret |-> [ok |-> FALSE, panic |-> TRUE]]
    ELSE [state |-> r.e,
          ret |-> Ok([progress |-> IF r.e.pixel_amount = 0 THEN "Finished" ELSE "Unfinished",
                      output |-> r.output, empty |-> r.e.output_buffer_space])]

\* a capacity check that lets a 4-byte array pass
process_pixels_from_four(e, input, output) ==
    IF Len(output) < 4
    THEN [state |-> e, ret |-> Err(QoiError("BufferTooSmall", <<Len(output)>>))]
    ELSE progress(internal_process_pixels(e, input, output))

\* QoiEncoder::process_pixels: the encoder it leaves (consumed by Finished
\* and Err, kept here for the properties) and what it returns
process_pixels(e, input, output) ==
    IF Len(output) < 5
    THEN [state |-> e, ret |-> Err(QoiError("BufferTooSmall", <<Len(output)>>))]
    ELSE progress(internal_process_pixels(e, input, output))

(***************************************************************************)
(* The decoder's caller                                                    *)
(***************************************************************************)
\* the longest chunk sequence the caller's streams are built from
MaxChunks == 2

\* the longest run a QOI_OP_RUN chunk of the caller's streams stands for
MaxRun == 5

\* the chunks the caller's streams are built from, one or two of each kind
Chunks ==
    { <<254, 255, 255, 255>>,  \* QOI_OP_RGB
      <<255, 1, 2, 3, 4>>,     \* QOI_OP_RGBA
      <<127>>,                 \* QOI_OP_DIFF (+1, +1, +1)
      <<128, 55>>,             \* QOI_OP_LUMA (-37, -32, -33)
      <<38>>,                  \* QOI_OP_INDEX, the slot of (255, 255, 255, 255)
      <<192>>,                 \* QOI_OP_RUN of 1
      <<192 + MaxRun - 1>> }   \* QOI_OP_RUN of MaxRun

RECURSIVE ChunkSeqs(_)
ChunkSeqs(n) ==
    IF n = 0 THEN {<<>>}
    ELSE LET shorter == ChunkSeqs(n - 1)
         IN  shorter \cup {Append(cs, c) : cs \in {x \in shorter : Len(x) = n - 1}, c \in Chunks}

\* the pixels a chunk of the caller's stream stands for
chunk_pixels(c) == IF c[1] >= 192 /\ c[1] <= 253 THEN c[1] - 191 ELSE 1

RECURSIVE stream_pixels(_)
stream_pixels(cs) ==
    IF cs = <<>> THEN 0 ELSE chunk_pixels(Head(cs)) + stream_pixels(Tail(cs))

\* what may follow the last chunk: the end marker, a marker with a wrong
\* byte, a marker with a byte too many
Trailers == {END_MARKER, <<0, 0, 0, 0, 4, 0, 0, 1>>, END_MARKER \o <<0>>}

\* the largest capacity holds every pixel of the longest stream at once
LargestCapacity == 4 * MaxChunks * MaxRun

\* the decoder capacities the caller streams with
Capacities == {16, 20, LargestCapacity}

\* the slices after the first are at most this long
MaxBlock == 8

\* a valid header for an image of the given size
valid_header(width, height, channels) ==
    to_u8(QoiHeaderInternal_new(width, height, channels, 0))

no_decoder == QoiDecoderInternal_new(0, <<>>)

no_encoder == QoiEncoderInternal_new(0, FALSE)

no_result == [kind |-> "none", output |-> None, error |-> None]

no_hist == [op |-> "none", pre |-> no_decoder, input |-> <<>>]

\* no header is being converted
no_header ==
    [step |-> "idle", fields |-> QoiHeaderInternal_new(0, 0, 0, 0), bytes |-> <<>>,
     parsed |-> None]

\* no pixel is being encoded
no_pixels ==
    [step |-> "idle", new |-> ZERO_PIXEL, old |-> ZERO_PIXEL, diff |-> None, luma |-> None,
     hash |-> 0, from_diff |-> None, from_luma |-> None]

\* what a decoder call returned, as one record shape
dec_outcome(ret) ==
    IF ret.ok
    THEN [kind |-> ret.value.progress, output |-> ret.value.output, error |-> None]
    ELSE IF "panic" \in DOMAIN ret
    THEN [kind |-> "Panic", output |-> None, error |-> None]
    ELSE [kind |-> "Err", output |-> None, error |-> ret.error]

\* a caller that still holds a decoder after an error
dec_next_status_retry(kind) ==
    CASE kind = "AwaitInput" -> "Ready"
      [] kind = "ContinueProcessing" -> "Continue"
      [] kind = "Err" -> "Ready"
      [] OTHER -> kind

\* the decoder type the caller holds after a call
dec_next_status(kind) ==
    CASE kind = "AwaitInput" -> "Ready"
      [] kind = "ContinueProcessing" -> "Continue"
      [] OTHER -> kind

\* the bytes of an output the caller takes: the first amount bytes of the array
drained(output) ==
    IF output = None THEN <<>> ELSE Take(output[1].bytes, output[1].amount)

enc_idle ==
    /\ img = [input |-> <<>>, width |-> 0, height |-> 0, channels |-> 0, colorspace |-> 0]
    /\ enc_N = 0
    /\ enc = no_encoder
    /\ enc_status = "idle"
    /\ enc_header = <<>>
    /\ enc_result = no_result
    /\ enc_bytes = <<>>
    /\ enc_hist = [op |-> "none", pre |-> no_encoder, calls |-> 0]

dec_start(header, n, stream, first, block) ==
    /\ dec_header = header
    /\ dec_N = n
    /\ dec = no_decoder
    /\ dec_status = "new"
    /\ dec_result = no_result
    /\ dec_stream = stream
    /\ dec_fed = 0
    /\ dec_first = first
    /\ dec_block = block
    /\ dec_pixels = <<>>
    /\ dec_hist = no_hist

\* the decoder's caller holds a stream of chunks and a trailer
InitDec ==
    /\ overflow_checks \in BOOLEAN
    /\ hdr = no_header
    /\ px = no_pixels
    /\ \E cs \in ChunkSeqs(MaxChunks), t \in Trailers, n \in Capacities :
          /\ cs # <<>>
          /\ IF Len(cs) = 1 THEN TRUE ELSE t = END_MARKER
          /\ \E first \in 1..n, block \in 1..MaxBlock :
                /\ first <= Len(Flatten(cs) \o t)
                /\ dec_start(valid_header(stream_pixels(cs), 1, 4), n, Flatten(cs) \o t,
                             first, block)
    /\ enc_idle

\* QoiDecoder::init(&header, [0; N])
DecInit ==
    /\ dec_status = "new"
    /\ LET r == QoiDecoder_init(dec_header, Repeat(0, dec_N))
       IN  /\ dec' = IF r.ok THEN r.value.data ELSE dec
           /\ dec_status' = IF r.ok THEN "Ready" ELSE "Err"
           /\ dec_result' = IF r.ok THEN [kind |-> "Init", output |-> None, error |-> None]
                            ELSE [kind |-> "Err", output |-> None, error |-> r.error]
    /\ dec_hist' = [op |-> "init", pre |-> dec, input |-> <<>>]
    /\ UNCHANGED <<overflow_checks, hdr, px, dec_header, dec_N, dec_stream, dec_fed, dec_first,
                   dec_block, dec_pixels, enc_vars>>

\* the end of the caller's next slice: first bytes, then block bytes at a
\* time, or what is left of the stream
slice_end(stream, fed, first, block) ==
    IF fed + (IF fed = 0 THEN first ELSE block) <= Len(stream)
    THEN fed + (IF fed = 0 THEN first ELSE block)
    ELSE Len(stream)

next_slice(stream, fed, first, block) ==
    SubSeq(stream, fed + 1, slice_end(stream, fed, first, block))

dec_call(op, r, input) ==
    LET out == dec_outcome(r.ret)
    IN  /\ dec' = r.data
        /\ dec_result' = out
        /\ dec_status' = dec_next_status(out.kind)
        /\ dec_pixels' = dec_pixels \o drained(out.output)
        /\ dec_hist' = [op |-> op, pre |-> dec, input |-> input]

\* decoder.input_bytes_to_process(&stream[fed .. fed + n])
DecFeed ==
    /\ dec_status = "Ready"
    /\ dec_fed < Len(dec_stream)
    /\ LET input == next_slice(dec_stream, dec_fed, dec_first, dec_block)
       IN  /\ dec_call("feed", input_bytes_to_process(dec, input), input)
           /\ dec_fed' = dec_fed + Len(input)
    /\ UNCHANGED <<overflow_checks, hdr, px, dec_header, dec_N, dec_stream, dec_first, dec_block,
                   enc_vars>>

\* how far below zero the remaining pixel count is followed: once it has
\* wrapped, a decoder can return ContinueProcessing without end
MaxOverrun == 12

\* decoder.continue_processing()
DecContinue ==
    /\ dec_status = "Continue"
    /\ dec.pixel_amount > -MaxOverrun
    /\ dec_call("continue", continue_processing(dec), <<>>)
    /\ UNCHANGED <<overflow_checks, hdr, px, dec_header, dec_N, dec_stream, dec_fed, dec_first,
                   dec_block, enc_vars>>

NextDec == DecInit \/ DecFeed \/ DecContinue

Spec == InitDec /\ [][NextDec]_vars

(***************************************************************************)
(* The caller's loop as a function: the decoder driven over a whole stream *)
(* with a given capacity and slicing, until it finishes, fails, or has     *)
(* been fed everything (lib.rs, the decoding example).                     *)
(***************************************************************************)
\* no drive of the streams above takes more calls than this
MaxCalls == 64

drive_out(s, data, out, fed) ==
    [d |-> data, status |-> dec_next_status(out.kind), fed |-> fed,
     pixels |-> s.pixels \o drained(out.output), result |-> out]

drive_call(s, r, fed) == drive_out(s, r.data, dec_outcome(r.ret), fed)

drive_feed(s, stream, first, block) ==
    drive_call(s, input_bytes_to_process(s.d, next_slice(stream, s.fed, first, block)),
               slice_end(stream, s.fed, first, block))

drive_continue(s) == drive_call(s, continue_processing(s.d), s.fed)

RECURSIVE drive(_, _, _, _, _)
drive(s, stream, first, block, calls) ==
    IF calls = 0 THEN s
    ELSE IF s.status = "Ready" /\ s.fed < Len(stream)
    THEN drive(drive_feed(s, stream, first, block), stream, first, block, calls - 1)
    ELSE IF s.status = "Continue"
    THEN drive(drive_continue(s), stream, first, block, calls - 1)
    ELSE s

drive_init(r) ==
    IF r.ok
    THEN [d |-> r.value.data, status |-> "Ready", fed |-> 0, pixels |-> <<>>,
          result |-> [kind |-> "Init", output |-> None, error |-> None]]
    ELSE [d |-> no_decoder, status |-> "Err", fed |-> 0, pixels |-> <<>>,
          result |-> [kind |-> "Err", output |-> None, error |-> r.error]]

\* init, then the loop, for a window of n bytes
decode_all(header, n, stream, first, block) ==
    drive(drive_init(QoiDecoder_init(header, Repeat(0, n))), stream, first, block, MaxCalls)

\* width * height of a header (decoder.rs line 47)
header_pixels(header) ==
    from_be_bytes(array_from_input(header, 4, 4)) * from_be_bytes(array_from_input(header, 8, 4))

\* the caller has nothing left to do: no call of the loop is possible
dec_done ==
    /\ dec_status # "new"
    /\ dec_status # "Continue"
    /\ ~(dec_status = "Ready" /\ dec_fed < Len(dec_stream))

(***************************************************************************)
(* The reference QOI decoding of a chunk stream, from the format's         *)
(* definition of the chunks, independent of the decoder above.             *)
(***************************************************************************)
ref_bytes(p) == <<p.red, p.green, p.blue, p.alpha>>

ref_hash(p) == (p.red * 3 + p.green * 5 + p.blue * 7 + p.alpha * 11) % 64

ref_chunk_len(tag) ==
    IF tag = 255 THEN 5 ELSE IF tag = 254 THEN 4
    ELSE IF tag >= 128 /\ tag <= 191 THEN 2 ELSE 1

ref_chunk_count(tag) == IF tag >= 192 /\ tag <= 253 THEN (tag - 192) + 1 ELSE 1

ref_chunk_pixel(stream, pos, prev, seen) ==
    LET tag == stream[pos]
    IN  IF tag = 255
        THEN Pixel_new(stream[pos + 1], stream[pos + 2], stream[pos + 3], stream[pos + 4])
        ELSE IF tag = 254
        THEN Pixel_new(stream[pos + 1], stream[pos + 2], stream[pos + 3], prev.alpha)
        ELSE IF tag >= 192 THEN prev
        ELSE IF tag >= 128
        THEN Pixel_new((prev.red + (tag - 128) - 32 - 8 + (stream[pos + 1] \div 16) + 512) % 256,
                       (prev.green + (tag - 128) - 32 + 512) % 256,
                       (prev.blue + (tag - 128) - 32 - 8 + (stream[pos + 1] % 16) + 512) % 256,
                       prev.alpha)
        ELSE IF tag >= 64
        THEN Pixel_new((prev.red + ((tag - 64) \div 16) - 2 + 256) % 256,
                       (prev.green + (((tag - 64) \div 4) % 4) - 2 + 256) % 256,
                       (prev.blue + (tag % 4) - 2 + 256) % 256,
                       prev.alpha)
        ELSE seen[tag]

RECURSIVE ref_decode(_, _, _, _, _, _)
ref_next(stream, pos, seen, out, left, p, tag) ==
    ref_decode(stream, pos + ref_chunk_len(tag), p, [seen EXCEPT ![ref_hash(p)] = p],
               out \o Flatten(Repeat(ref_bytes(p), ref_chunk_count(tag))),
               left - ref_chunk_count(tag))

\* the pixel bytes of the first left pixels of the stream, and where they end
ref_decode(stream, pos, prev, seen, out, left) ==
    IF left <= 0 \/ pos > Len(stream)
    THEN [pixels |-> out, pos |-> pos]
    ELSE ref_next(stream, pos, seen, out, left,
                  ref_chunk_pixel(stream, pos, prev, seen), stream[pos])

reference(header, stream) ==
    ref_decode(stream, 1, DEFAULT_PIXEL, [i \in 0..63 |-> ZERO_PIXEL], <<>>,
               header_pixels(header))

\* chunks for exactly width * height pixels, then the end marker
well_formed(header, stream) ==
    /\ Len(reference(header, stream).pixels) = 4 * header_pixels(header)
    /\ Drop(stream, reference(header, stream).pos - 1) = END_MARKER

(***************************************************************************)
(* Properties of the decoder under Spec                                    *)
(***************************************************************************)
\* the window holds every pixel of the image at once
window_holds_image == dec_N >= 4 * header_pixels(dec_header)

\* the caller fed the whole stream in its first call
single_feed == dec_hist.op = "feed" /\ dec_first = Len(dec_stream)

\* C2: when the whole chunk stream with the end marker is fed in a single
\* call and the window holds width * height pixels, that call returns
\* Finished and its output is the reference decoding of the chunks.
C2_SingleFeedDecodesReference ==
    (single_feed /\ well_formed(dec_header, dec_stream) /\ window_holds_image)
        => /\ dec_result.kind = "Finished"
           /\ dec_pixels = reference(dec_header, dec_stream).pixels

\* a single feed of two chunks, one of them a run, came back
C2_Witness ==
    /\ single_feed /\ well_formed(dec_header, dec_stream) /\ window_holds_image
    /\ dec_stream = <<254, 255, 255, 255, 192 + MaxRun - 1>> \o END_MARKER
    /\ dec_result.kind = "Finished"
    /\ Len(dec_pixels) = 4 * (MaxRun + 1)

\* C3: once the caller has fed a well-formed stream one byte per call, the
\* pixels it drained are those of feeding the same stream in one call (the
\* window holding the whole image, so that only the slicing differs).
C3_ByteWiseEqualsOneShot ==
    (/\ dec_first = 1 /\ dec_block = 1 /\ dec_done
     /\ well_formed(dec_header, dec_stream) /\ window_holds_image
     /\ Len(dec_stream) <= dec_N)
        => dec_pixels = decode_all(dec_header, dec_N, dec_stream, Len(dec_stream), 1).pixels

\* C4: when the decoder finishes a well-formed stream, the pixels the caller
\* drained are those the largest window gives for the same stream and slicing.
C4_OutputIndependentOfCapacity ==
    (dec_status = "Finished" /\ well_formed(dec_header, dec_stream))
        => dec_pixels
             = decode_all(dec_header, LargestCapacity, dec_stream, dec_first, dec_block).pixels

\* the copies of the previous pixel a call owes when it starts inside a run
owed_run(d) ==
    Flatten(Repeat(to_array(d.previous_pixel),
                   IF d.run_amount <= Len(d.output.data) \div 4
                   THEN d.run_amount ELSE Len(d.output.data) \div 4))

\* C6: a call that starts with a run counter above 0 first emits the owed
\* copies of the previous pixel (as many as the window holds), and a decoder
\* that finished has a run counter of 0.
C6_RunResumes ==
    /\ (dec_hist.op \in {"feed", "continue"} /\ dec_hist.pre.run_amount > 0
        /\ dec_result.kind \in {"Finished", "AwaitInput", "ContinueProcessing"})
           => IsPrefix(owed_run(dec_hist.pre), drained(dec_result.output))
    /\ dec_status = "Finished" => dec.run_amount = 0

\* C7: a call that ends with no pixel left returns BadEndMarkerSize(count)
\* when more than 8 input bytes are unread, Finished or
\* BadEndMarkerBytes(bytes) when exactly 8 are, AwaitInput when fewer are.
C7_EndMarkerVerdict ==
    (dec_hist.op \in {"feed", "continue"} /\ dec.pixel_amount = 0
     /\ dec_result.kind # "Panic")
        => LET unread == Drop(Take(dec.input.data, dec.input.capacity), dec.input.index)
           IN  /\ Len(unread) > 8 =>
                     /\ dec_result.kind = "Err"
                     /\ dec_result.error = QoiError("BadEndMarkerSize", <<Len(unread)>>)
               /\ (Len(unread) = 8 /\ unread = <<0, 0, 0, 0, 0, 0, 0, 1>>) =>
                     dec_result.kind = "Finished"
               /\ (Len(unread) = 8 /\ unread # <<0, 0, 0, 0, 0, 0, 0, 1>>) =>
                     /\ dec_result.kind = "Err"
                     /\ dec_result.error = QoiError("BadEndMarkerBytes", unread)
               /\ Len(unread) < 8 => dec_result.kind = "AwaitInput"

\* a call ended with no pixel left and 8 unread bytes that are not the marker
C7_Witness ==
    /\ dec_hist.op \in {"feed", "continue"} /\ dec.pixel_amount = 0
    /\ dec.input.capacity - dec.input.index = 8
    /\ dec_result.kind = "Err" /\ dec_result.error.err = "BadEndMarkerBytes"

\* the unread bytes of the decoder's current slice
unread_input(d) == Drop(Take(d.input.data, d.input.capacity), d.input.index)

\* C8: when a call left no pixel and k < 8 unread bytes, all of them the
\* start of the end marker, a feed of the other 8 - k marker bytes returns
\* Finished.
C8_RestOfMarkerFinishes ==
    (/\ dec_hist.op = "feed" /\ dec_hist.pre.pixel_amount = 0
     /\ Len(unread_input(dec_hist.pre)) < 8
     /\ unread_input(dec_hist.pre) \o dec_hist.input = END_MARKER)
        => dec_result.kind = "Finished"

(***************************************************************************)
(* QoiDecoder::init on its own: the caller hands it headers with any mix   *)
(* of faults and windows of any small capacity.                            *)
(***************************************************************************)
\* the capacities tried are 0 .. MaxInitCapacity
MaxInitCapacity == 21

\* a header field by field, cut to 13 bytes or padded to 15 when len asks
header_bytes(len, magic, width, height, channels, colorspace) ==
    LET full == magic \o to_be_bytes(width) \o to_be_bytes(height) \o <<channels, colorspace>>
    IN  IF len < 14 THEN Take(full, len) ELSE full \o Repeat(0, len - 14)

Headers ==
    { header_bytes(len, magic, width, height, channels, colorspace) :
        len \in {13, 14, 15}, magic \in {MAGIC_BYTES, <<113, 110, 105, 102>>},
        width \in {0, 2}, height \in {0, 4}, channels \in {2, 3, 4, 5},
        colorspace \in {0, 1, 2} }

InitHeaders ==
    /\ overflow_checks \in BOOLEAN
    /\ hdr = no_header
    /\ px = no_pixels
    /\ \E header \in Headers, n \in 0..MaxInitCapacity :
          dec_start(header, n, <<>>, 1, 1)
    /\ enc_idle

NextInit == DecInit

SpecInit == InitHeaders /\ [][NextInit]_vars

\* C9: init returns BadBufferSize(N) for every capacity below 16 or not
\* divisible by 4, and a capacity it accepts is at least 16 and divisible by 4.
C9_BadCapacityRejected ==
    dec_hist.op = "init" =>
        /\ (dec_N < 16 \/ dec_N % 4 # 0) =>
               /\ dec_result.kind = "Err"
               /\ dec_result.error = QoiError("BadBufferSize", <<dec_N>>)
        /\ dec_result.kind = "Init" => (dec_N >= 16 /\ dec_N % 4 = 0)

\* the error of the first failing check, in the order capacity, header
\* length, magic, dimensions, channels, colorspace; None when none fails
first_fault(header, n) ==
    IF n < 16 \/ n % 4 # 0 THEN QoiError("BadBufferSize", <<n>>)
    ELSE IF Len(header) # 14 THEN QoiError("BadHeaderSize", <<Len(header)>>)
    ELSE IF SubSeq(header, 1, 4) # <<113, 111, 105, 102>>
    THEN QoiError("InvalidMagicBytes", SubSeq(header, 1, 4))
    ELSE IF from_be_bytes(SubSeq(header, 5, 8)) = 0 \/ from_be_bytes(SubSeq(header, 9, 12)) = 0
    THEN QoiError("InvalidWidthHeight",
                  <<from_be_bytes(SubSeq(header, 5, 8)), from_be_bytes(SubSeq(header, 9, 12))>>)
    ELSE IF header[13] \notin {3, 4} THEN QoiError("InvalidChannelsValue", <<header[13]>>)
    ELSE IF header[14] \notin {0, 1} THEN QoiError("InvalidColorspaceValue", <<header[14]>>)
    ELSE None

\* C10: init reports the first failing check of the order capacity, header
\* length, magic, dimensions, channels, colorspace, with the observed
\* values, and succeeds when no check fails.
C10_FirstFaultReported ==
    dec_hist.op = "init" =>
        IF first_fault(dec_header, dec_N) = None
        THEN dec_result.kind = "Init"
        ELSE dec_result.kind = "Err" /\ dec_result.error = first_fault(dec_header, dec_N)

(***************************************************************************)
(* The encoder's caller: an image, then process_pixels with a fresh output *)
(* array of N bytes per call until Finished (lib.rs, the encoding example) *)
(***************************************************************************)
\* images have 1 .. MaxPixels pixels
MaxPixels == 4

\* the pixels images are made of: the start value of previous_pixel, one a
\* DIFF away, one a LUMA away, one far away, one with another alpha
PaletteRGBA ==
    { <<0, 0, 0, 255>>, <<1, 1, 1, 255>>, <<0, 2, 0, 255>>, <<128, 128, 128, 255>>,
      <<0, 0, 0, 222>> }

PaletteRGB == { <<0, 0, 0>>, <<1, 1, 1>>, <<0, 2, 0>>, <<128, 128, 128>> }

RECURSIVE PixelSeqs(_, _)
PixelSeqs(palette, n) ==
    IF n = 0 THEN {<<>>}
    ELSE {p \o rest : p \in palette, rest \in PixelSeqs(palette, n - 1)}

\* an image of Len(input) / channels pixels in one row
image(input, channels) ==
    [input |-> input, width |-> Len(input) \div channels, height |-> 1,
     channels |-> channels, colorspace |-> 0]

Images ==
    UNION { {image(input, 4) : input \in PixelSeqs(PaletteRGBA, n)} \cup
            {image(input, 3) : input \in PixelSeqs(PaletteRGB, n)} : n \in 1..MaxPixels }

\* the largest output array holds the chunks of every pixel at once
LargestOutput == 5 * MaxPixels

EncCapacities == {4, 5, 6, 8, LargestOutput}

dec_idle ==
    /\ dec_header = <<>>
    /\ dec_N = 0
    /\ dec = no_decoder
    /\ dec_status = "idle"
    /\ dec_result = no_result
    /\ dec_stream = <<>>
    /\ dec_fed = 0
    /\ dec_first = 1
    /\ dec_block = 1
    /\ dec_pixels = <<>>
    /\ dec_hist = no_hist

enc_start(image_, n) ==
    /\ img = image_
    /\ enc_N = n
    /\ enc = no_encoder
    /\ enc_status = "new"
    /\ enc_header = <<>>
    /\ enc_result = no_result
    /\ enc_bytes = <<>>
    /\ enc_hist = [op |-> "none", pre |-> no_encoder, calls |-> 0]

InitEnc ==
    /\ overflow_checks \in BOOLEAN
    /\ hdr = no_header
    /\ px = no_pixels
    /\ \E i \in Images, n \in EncCapacities : enc_start(i, n)
    /\ dec_idle

\* QoiEncoder::new(&input, width, height, channels, colorspace)
EncNew ==
    /\ enc_status = "new"
    /\ LET r == QoiEncoder_new(img.input, img.width, img.height, img.channels, img.colorspace)
       IN  /\ enc' = IF r.ok THEN r.value.state ELSE enc
           /\ enc_status' = IF r.ok THEN "Ready" ELSE "Err"
           /\ enc_header' = IF r.ok THEN to_u8(r.value.header) ELSE enc_header
           /\ enc_result' = IF r.ok THEN [kind |-> "New", output |-> None, error |-> None]
                            ELSE [kind |-> "Err", output |-> None, error |-> r.error]
    /\ enc_hist' = [op |-> "new", pre |-> enc, calls |-> 0]
    /\ UNCHANGED <<overflow_checks, hdr, px, img, enc_N, enc_bytes, dec_vars>>

\* what an encoder call returned, as one record shape
enc_outcome(ret) ==
    IF ret.ok
    THEN [kind |-> ret.value.progress,
          output |-> Some([bytes |-> ret.value.output, empty |-> ret.value.empty]),
          error |-> None]
    ELSE IF "panic" \in DOMAIN ret
    THEN [kind |-> "Panic", output |-> None, error |-> None]
    ELSE [kind |-> "Err", output |-> None, error |-> ret.error]

\* the encoder type the caller holds after a call
enc_next_status(kind) == IF kind = "Unfinished" THEN "Ready" ELSE kind

\* the bytes of an output the caller takes: all but the empty last ones
enc_drained(output) ==
    IF output = None THEN <<>>
    ELSE Take(output[1].bytes, Len(output[1].bytes) - output[1].empty)

\* encoder.process_pixels(&input, [0; N])
EncProcess ==
    /\ enc_status = "Ready"
    /\ LET r == process_pixels(enc, img.input, Repeat(0, enc_N))
       IN  /\ enc' = r.state
           /\ enc_result' = enc_outcome(r.ret)
           /\ enc_status' = enc_next_status(enc_outcome(r.ret).kind)
           /\ enc_bytes' = enc_bytes \o enc_drained(enc_outcome(r.ret).output)
    /\ enc_hist' = [op |-> "process", pre |-> enc, calls |-> enc_hist.calls + 1]
    /\ UNCHANGED <<overflow_checks, hdr, px, img, enc_N, enc_header, dec_vars>>

NextEnc == EncNew \/ EncProcess

SpecEnc == InitEnc /\ [][NextEnc]_vars

(***************************************************************************)
(* The encoder caller's loop as a function: QoiEncoder::new, then          *)
(* process_pixels with arrays of n bytes until it finishes or fails.       *)
(***************************************************************************)
encoded(s, state, out) ==
    [e |-> state, status |-> enc_next_status(out.kind),
     bytes |-> s.bytes \o enc_drained(out.output), result |-> out]

encode_call(s, r) == encoded(s, r.state, enc_outcome(r.ret))

RECURSIVE encode_loop(_, _, _, _)
encode_loop(s, input, n, calls) ==
    IF calls = 0 \/ s.status # "Ready" THEN s
    ELSE encode_loop(encode_call(s, process_pixels(s.e, input, Repeat(0, n))),
                     input, n, calls - 1)

encode_new(r) ==
    IF r.ok
    THEN [e |-> r.value.state, status |-> "Ready", bytes |-> <<>>,
          result |-> [kind |-> "New", output |-> None, error |-> None]]
    ELSE [e |-> no_encoder, status |-> "Err", bytes |-> <<>>,
          result |-> [kind |-> "Err", output |-> None, error |-> r.error]]

encode_all(i, n) ==
    encode_loop(encode_new(QoiEncoder_new(i.input, i.width, i.height, i.channels,
                                          i.colorspace)),
                i.input, n, MaxCalls)

\* the caller's loop has ended
enc_done == enc_status \in {"Finished", "Err", "Panic"}

\* C5: for an accepted image and N >= 5, the loop ends as it does with the
\* largest output array, and the valid bytes the caller concatenated are the
\* same chunk bytes.
C5_OutputIndependentOfCapacity ==
    (enc_done /\ enc_hist.op = "process" /\ enc_N >= 5)
        => /\ enc_status = encode_all(img, LargestOutput).status
           /\ enc_bytes = encode_all(img, LargestOutput).bytes

\* three calls with N = 5 finished an image whose second chunk did not fit
\* the first array
C5_Witness ==
    /\ enc_N = 5
    /\ enc_status = "Finished"
    /\ img.input = <<0, 0, 0, 255, 0, 0, 0, 222, 128, 128, 128, 255>>
    /\ enc_hist.calls = 3
    /\ enc_bytes = <<192, 255, 0, 0, 0, 222, 255, 128, 128, 128, 255>>

(***************************************************************************)
(* Round trip: the bytes the encoder's caller collected, with the header   *)
(* and the end marker, handed to a decoder in one feed.                    *)
(***************************************************************************)
\* a window that takes the longest stream in one feed and holds its pixels
RoundTripCapacity == 8 * MaxPixels

InitRoundTrip ==
    /\ overflow_checks \in BOOLEAN
    /\ hdr = no_header
    /\ px = no_pixels
    /\ \E i \in Images, n \in {5, LargestOutput} : enc_start(i, n)
    /\ dec_idle

\* the caller starts a decoder on header, chunks and end marker
HandOver ==
    /\ enc_status = "Finished"
    /\ dec_status = "idle"
    /\ dec_header' = enc_header
    /\ dec_N' = RoundTripCapacity
    /\ dec_stream' = enc_bytes \o END_MARKER
    /\ dec_first' = Len(enc_bytes) + 8
    /\ dec_status' = "new"
    /\ UNCHANGED <<overflow_checks, hdr, px, dec, dec_result, dec_fed, dec_block, dec_pixels,
                   dec_hist, enc_vars>>

NextRoundTrip == EncNew \/ EncProcess \/ HandOver \/ DecInit \/ DecFeed

SpecRoundTrip == InitRoundTrip /\ [][NextRoundTrip]_vars

\* the RGBA bytes of an image's pixels: RGB pixels get alpha 255
RECURSIVE expand_rgb(_)
expand_rgb(input) ==
    IF Len(input) < 3 THEN <<>>
    ELSE <<input[1], input[2], input[3], 255>> \o expand_rgb(Drop(input, 3))

image_pixels(i) == IF i.channels = 3 THEN expand_rgb(i.input) ELSE i.input

\* C1: encoding an image ends Finished, and decoding header, chunks and end
\* marker ends Finished with exactly the image's pixels.
C1_RoundTrip ==
    /\ enc_done => enc_status = "Finished"
    /\ dec_hist.op = "feed" =>
          /\ dec_result.kind = "Finished"
          /\ dec_pixels = image_pixels(img)

(***************************************************************************)
(* Feeds of any length: the caller's slices may be empty or one byte       *)
(* longer than the window, as well as every length in between.             *)
(***************************************************************************)
\* the slices after the first: none, one byte, a few, the window and a byte
FeedBlocks(n) == {0, 1, 4, n + 1}

InitFeed ==
    /\ overflow_checks \in BOOLEAN
    /\ hdr = no_header
    /\ px = no_pixels
    /\ \E cs \in ChunkSeqs(MaxChunks), n \in {16, 20} :
          /\ cs # <<>>
          /\ \E first \in 0..(n + 1), block \in FeedBlocks(n) :
                /\ first <= Len(Flatten(cs) \o END_MARKER)
                /\ dec_start(valid_header(stream_pixels(cs), 1, 4), n,
                             Flatten(cs) \o END_MARKER, first, block)
    /\ enc_idle

SpecFeed == InitFeed /\ [][NextDec]_vars

\* the call stopped where the decoder suspends: Finished at the end marker,
\* ContinueProcessing with a full output window, pixels owed and input
\* unread, AwaitInput with the slice read or fewer than 8 bytes of it unread
at_suspension_point ==
    /\ dec_result.kind \in {"Finished", "AwaitInput", "ContinueProcessing", "Err"}
    /\ dec_result.kind = "Err" =>
           dec_result.error.err \in {"BadEndMarkerSize", "BadEndMarkerBytes"}
    /\ dec_result.kind = "Finished" =>
           dec.pixel_amount = 0 /\ unread_input(dec) = END_MARKER
    /\ dec_result.kind = "ContinueProcessing" =>
           /\ dec.pixel_amount # 0
           /\ unread_input(dec) # <<>>
           /\ Len(drained(dec_result.output)) = dec_N
    /\ dec_result.kind = "AwaitInput" =>
           IF dec.pixel_amount = 0 THEN Len(unread_input(dec)) < 8
           ELSE unread_input(dec) = <<>>

\* C11: a feed returns BadInputSize(len, N) exactly when the slice is empty
\* or longer than N; any other slice becomes the input window (capacity =
\* its length, its bytes at the front, read from cursor 0 on) and the call
\* runs to the decoder's next suspension point.
C11_FeedChecksSliceLength ==
    dec_hist.op = "feed" =>
        IF Len(dec_hist.input) = 0 \/ Len(dec_hist.input) > dec_N
        THEN /\ dec_result.kind = "Err"
             /\ dec_result.error = QoiError("BadInputSize", <<Len(dec_hist.input), dec_N>>)
        ELSE /\ dec.input.capacity = Len(dec_hist.input)
             /\ Take(dec.input.data, dec.input.capacity) = dec_hist.input
             /\ dec.input.index <= dec.input.capacity
             /\ at_suspension_point

\* a slice one byte longer than the window was turned away
C11_Witness ==
    /\ dec_hist.op = "feed"
    /\ Len(dec_hist.input) = dec_N + 1
    /\ dec_result.kind = "Err"
    /\ dec_result.error = QoiError("BadInputSize", <<dec_N + 1, dec_N>>)

(***************************************************************************)
(* Headers on their own: a valid header is converted to bytes by to_u8 and *)
(* the bytes are parsed by extract.                                        *)
(***************************************************************************)
\* widths and heights with a byte of their own in every position, up to the
\* largest integer the model checker represents (2^31 - 1)
Dimensions == {1, 2, 255, 256, 65536, 16909060, 2130706432, 2147483647}

InitHeader ==
    /\ overflow_checks \in BOOLEAN
    /\ \E width \in Dimensions, height \in Dimensions, channels \in {3, 4},
          colorspace \in {0, 1} :
          hdr = [step |-> "new",
                 fields |-> QoiHeaderInternal_new(width, height, channels, colorspace),
                 bytes |-> <<>>, parsed |-> None]
    /\ px = no_pixels
    /\ dec_idle
    /\ enc_idle

\* header.to_u8()
HeaderToU8 ==
    /\ hdr.step = "new"
    /\ hdr' = [hdr EXCEPT !.step = "bytes", !.bytes = to_u8(hdr.fields)]
    /\ UNCHANGED <<overflow_checks, px, dec_vars, enc_vars>>

\* QoiHeaderInternal::extract(&bytes)
HeaderExtract ==
    /\ hdr.step = "bytes"
    /\ hdr' = [hdr EXCEPT !.step = "parsed", !.parsed = Some(extract(hdr.bytes))]
    /\ UNCHANGED <<overflow_checks, px, dec_vars, enc_vars>>

NextHeader == HeaderToU8 \/ HeaderExtract

SpecHeader == InitHeader /\ [][NextHeader]_vars

\* the value four bytes stand for, most significant byte first
big_endian(b, at) ==
    ((b[at] * 256 + b[at + 1]) * 256 + b[at + 2]) * 256 + b[at + 3]

\* C12: the bytes of a valid header are the 4 magic bytes, the width and the
\* height most significant byte first, channels and colorspace, 14 in all,
\* and parsing them succeeds with the same field values.
C12_HeaderSymmetry ==
    /\ hdr.step \in {"bytes", "parsed"} =>
          /\ Len(hdr.bytes) = 14
          /\ \A i \in 1..14 : hdr.bytes[i] \in 0..255
          /\ SubSeq(hdr.bytes, 1, 4) = <<113, 111, 105, 102>>
          /\ big_endian(hdr.bytes, 5) = hdr.fields.width
          /\ big_endian(hdr.bytes, 9) = hdr.fields.height
          /\ hdr.bytes[13] = hdr.fields.channels
          /\ hdr.bytes[14] = hdr.fields.colorspace
    /\ hdr.step = "parsed" =>
          /\ hdr.parsed[1].ok
          /\ hdr.parsed[1].value = hdr.fields

\* a header whose width has four different bytes was converted and parsed
C12_Witness ==
    /\ hdr.step = "parsed"
    /\ hdr.fields.width = 16909060
    /\ SubSeq(hdr.bytes, 5, 8) = <<1, 2, 3, 4>>
    /\ hdr.parsed[1].ok
    /\ hdr.parsed[1].value.width = 16909060

(***************************************************************************)
(* QoiEncoder::new with any arguments: slices of every small length with   *)
(* declared sizes, channels and colorspaces that may or may not fit them.  *)
(***************************************************************************)
\* the pixel slices tried have 0 .. MaxInputLen bytes
MaxInputLen == 16

\* the widths tried are 0 .. MaxWidth, the heights 0 .. MaxHeight
MaxWidth == 5

MaxHeight == 2

InitNew ==
    /\ overflow_checks \in BOOLEAN
    /\ hdr = no_header
    /\ px = no_pixels
    /\ \E len \in 0..MaxInputLen, width \in 0..MaxWidth, height \in 0..MaxHeight,
          channels \in {2, 3, 4, 5}, colorspace \in {0, 1, 2} :
          enc_start([input |-> Repeat(255, len), width |-> width, height |-> height,
                     channels |-> channels, colorspace |-> colorspace],
                    LargestOutput)
    /\ dec_idle

SpecNew == InitNew /\ [][NextEnc]_vars

\* width, height, channels and colorspace pass the checks of lines 57-59
valid_declaration(i) ==
    /\ i.width # 0 /\ i.height # 0
    /\ i.channels \in {3, 4}
    /\ i.colorspace \in {0, 1}

\* C13: new succeeds only for a slice of width * height * channels bytes, and
\* with valid width, height, channels and colorspace every other length is
\* rejected with IncorrectInputData or InputHeaderMismatch.
C13_LengthMustFitGeometry ==
    enc_hist.op = "new" =>
        /\ enc_result.kind = "New" =>
               Len(img.input) = img.width * img.height * img.channels
        /\ (valid_declaration(img)
            /\ Len(img.input) # img.width * img.height * img.channels) =>
               /\ enc_result.kind = "Err"
               /\ enc_result.error.err \in {"IncorrectInputData", "InputHeaderMismatch"}

\* C14: an accepted input with channels = c is read in pixels of c bytes,
\* with alpha from the 4th byte exactly when c = 4: new leaves alpha = (c = 4),
\* no call reads past the slice, every call stops at a pixel boundary, and
\* the last call has read the whole slice.
C14_ChannelsAuthoritative ==
    /\ (enc_hist.op = "new" /\ enc_result.kind = "New") =>
           enc.alpha = (img.channels = 4)
    /\ enc_hist.op = "process" =>
           /\ enc_result.kind # "Panic"
           /\ enc.byte_index % img.channels = 0
           /\ enc_result.kind = "Finished" => enc.byte_index = Len(img.input)

\* the error of the first failing check of new, in the order width or height
\* zero, channels, colorspace, length not divisible by channels, length not
\* width * height * channels; None when none fails.  The count a mismatch
\* reports is left to new_fault_count.
new_fault(i) ==
    IF i.width = 0 \/ i.height = 0 THEN QoiError("InvalidWidthHeight", <<i.width, i.height>>)
    ELSE IF i.channels \notin {3, 4} THEN QoiError("InvalidChannelsValue", <<i.channels>>)
    ELSE IF i.colorspace \notin {0, 1}
    THEN QoiError("InvalidColorspaceValue", <<i.colorspace>>)
    ELSE IF Len(i.input) % i.channels # 0
    THEN QoiError("IncorrectInputData", <<Len(i.input), i.channels>>)
    ELSE IF Len(i.input) # i.width * i.height * i.channels
    THEN QoiError("InputHeaderMismatch", <<i.width, i.height>>)
    ELSE None

\* what new returned, a mismatch without its count
new_reported(result) ==
    IF result.kind # "Err" THEN None
    ELSE IF result.error.err = "InputHeaderMismatch"
    THEN QoiError("InputHeaderMismatch", Take(result.error.args, 2))
    ELSE result.error

\* C15: new reports the first failing check of the order width or height
\* zero, channels, colorspace, divisibility by channels, geometry, with the
\* offending values, and succeeds when no check fails.
C15_FirstFaultOfNew ==
    enc_hist.op = "new" => new_reported(enc_result) = new_fault(img)

\* C16: the count of InputHeaderMismatch(width, height, n) is the number of
\* pixels in the slice, its length divided by the declared channels.
C16_MismatchCountsPixels ==
    (enc_hist.op = "new" /\ enc_result.kind = "Err"
     /\ enc_result.error.err = "InputHeaderMismatch")
        => enc_result.error.args
             = <<img.width, img.height, Len(img.input) \div img.channels>>

(***************************************************************************)
(* The reference encoding of an image, from the classification of each     *)
(* pixel against the previous pixel and the dictionary, independent of the *)
(* encoder above.                                                          *)
(***************************************************************************)
\* the pixels of an image as its declared channels lay them out
declared_pixels(input, channels) ==
    [k \in 1..(Len(input) \div channels) |->
        Pixel_new(input[(k - 1) * channels + 1], input[(k - 1) * channels + 2],
                  input[(k - 1) * channels + 3],
                  IF channels = 4 THEN input[(k - 1) * channels + 4] ELSE 255)]

\* a difference of two bytes as a signed 8-bit value
signed_diff(a, b) == ((a - b + 128 + 256) % 256) - 128

enc_ref_diff_applies(p, q) ==
    /\ signed_diff(p.red, q.red) \in -2..1
    /\ signed_diff(p.green, q.green) \in -2..1
    /\ signed_diff(p.blue, q.blue) \in -2..1

enc_ref_luma_applies(p, q) ==
    /\ signed_diff(p.green, q.green) \in -32..31
    /\ signed_diff(signed_diff(p.red, q.red), signed_diff(p.green, q.green)) \in -8..7
    /\ signed_diff(signed_diff(p.blue, q.blue), signed_diff(p.green, q.green)) \in -8..7

\* the chunk of a pixel p that does not continue the previous pixel q
enc_ref_chunk(p, q, dict) ==
    IF dict[ref_hash(p)] = p THEN <<ref_hash(p)>>
    ELSE IF p.alpha # q.alpha THEN <<255, p.red, p.green, p.blue, p.alpha>>
    ELSE IF enc_ref_diff_applies(p, q)
    THEN <<64 + (signed_diff(p.red, q.red) + 2) * 16
              + (signed_diff(p.green, q.green) + 2) * 4
              + (signed_diff(p.blue, q.blue) + 2)>>
    ELSE IF enc_ref_luma_applies(p, q)
    THEN <<128 + signed_diff(p.green, q.green) + 32,
           (signed_diff(signed_diff(p.red, q.red), signed_diff(p.green, q.green)) + 8) * 16
              + signed_diff(signed_diff(p.blue, q.blue), signed_diff(p.green, q.green)) + 8>>
    ELSE <<254, p.red, p.green, p.blue>>

\* how many of the pixels from position i on equal q, 62 at most
RECURSIVE enc_ref_run_length(_, _, _, _)
enc_ref_run_length(pixels, i, q, n) ==
    IF i > Len(pixels) \/ n = 62 \/ pixels[i] # q THEN n
    ELSE enc_ref_run_length(pixels, i + 1, q, n + 1)

\* a run is opened by a pixel equal to the previous one that the dictionary
\* holds; at the first position the start value (0, 0, 0, 255) opens one too
RECURSIVE enc_ref_encode(_, _, _, _, _)
enc_ref_run(pixels, i, q, dict, out, length) ==
    enc_ref_encode(pixels, i + length, q, [dict EXCEPT ![ref_hash(q)] = q],
                   Append(out, 192 + length - 1))

enc_ref_encode(pixels, i, q, dict, out) ==
    IF i > Len(pixels) THEN out
    ELSE IF pixels[i] = q /\ (dict[ref_hash(q)] = q \/ i = 1)
    THEN enc_ref_run(pixels, i, q, dict, out, enc_ref_run_length(pixels, i, q, 0))
    ELSE enc_ref_encode(pixels, i + 1, pixels[i],
                        [dict EXCEPT ![ref_hash(pixels[i])] = pixels[i]],
                        out \o enc_ref_chunk(pixels[i], q, dict))

enc_reference(i) ==
    enc_ref_encode(declared_pixels(i.input, i.channels), 1, DEFAULT_PIXEL,
                   [k \in 0..63 |-> ZERO_PIXEL], <<>>)

\* C17: the chunks of a finished image are those of classifying every pixel
\* p against the previous pixel q and the dictionary: a run when the
\* dictionary holds p and p = q, else INDEX when the dictionary holds p,
\* else with equal alpha DIFF, else LUMA, else RGB, and RGBA otherwise, the
\* first pixel included.
C17_PixelClassification ==
    enc_status = "Finished" => enc_bytes = enc_reference(img)

\* every run chunk of bytes from position pos on stands for pixels equal to
\* the pixel before them (the start value before the first), i pixels being
\* accounted for by the chunks before pos
RECURSIVE runs_sound(_, _, _, _)
runs_sound(bytes, pos, pixels, i) ==
    IF pos > Len(bytes) THEN TRUE
    ELSE IF bytes[pos] >= 192 /\ bytes[pos] <= 253
    THEN /\ i + ref_chunk_count(bytes[pos]) <= Len(pixels)
         /\ \A k \in (i + 1)..(i + ref_chunk_count(bytes[pos])) :
               pixels[k] = IF i = 0 THEN DEFAULT_PIXEL ELSE pixels[i]
         /\ runs_sound(bytes, pos + 1, pixels, i + ref_chunk_count(bytes[pos]))
    ELSE runs_sound(bytes, pos + ref_chunk_len(bytes[pos]), pixels, i + 1)

\* C19: every pixel a run chunk accounts for, the one that opens the run and
\* those that extend it, equals the previous pixel at the opening of the run.
C19_RunSoundness ==
    (enc_hist.op = "process" /\ enc_result.kind \in {"Finished", "Unfinished"})
        => runs_sound(enc_bytes, 1, declared_pixels(img.input, img.channels), 0)

(***************************************************************************)
(* Long runs: images of up to MaxRunPixels equal pixels, alone or followed *)
(* by one other pixel.                                                     *)
(***************************************************************************)
\* two full runs and a bit
MaxRunPixels == 126

RunPixels(channels) ==
    IF channels = 3 THEN { <<0, 0, 0>>, <<1, 1, 1>> }
    ELSE { <<0, 0, 0, 255>>, <<1, 1, 1, 255>>, <<0, 0, 0, 222>> }

RunTails == { <<>>, <<128, 128, 128, 255>> }

\* k copies of a pixel and the tail (without its alpha in an RGB image)
run_image(p, k, tail, channels) ==
    image([j \in 1..(k * channels) |-> p[((j - 1) % channels) + 1]]
              \o (IF tail = <<>> THEN <<>> ELSE Take(tail, channels)),
          channels)

InitRun ==
    /\ overflow_checks \in BOOLEAN
    /\ hdr = no_header
    /\ px = no_pixels
    /\ \E channels \in {3, 4}, k \in 1..MaxRunPixels, tail \in RunTails,
          n \in {5, LargestOutput} :
          \E p \in RunPixels(channels) : enc_start(run_image(p, k, tail, channels), n)
    /\ dec_idle

SpecRun == InitRun /\ [][NextEnc]_vars

\* how many pixels (0, 0, 0, 255) the declared pixels start with
leading_start_pixels(pixels) ==
    CHOOSE k \in 0..Len(pixels) :
        /\ \A j \in 1..k : pixels[j] = DEFAULT_PIXEL
        /\ k < Len(pixels) => pixels[k + 1] # DEFAULT_PIXEL

\* 0xC0 | (min(k, 62) - 1)
first_run_byte(k) == 192 + (IF k < 62 THEN k ELSE 62) - 1

\* C18: when the image starts with k >= 1 pixels (0, 0, 0, 255), the first
\* chunk the encoder emits is the run byte 0xC0 | (min(k, 62) - 1).
C18_FirstPixelRun ==
    (enc_hist.op = "process"
     /\ leading_start_pixels(declared_pixels(img.input, img.channels)) >= 1)
        => /\ enc_result.kind \in {"Finished", "Unfinished"}
           /\ enc_bytes # <<>>
           /\ enc_bytes[1] = first_run_byte(
                  leading_start_pixels(declared_pixels(img.input, img.channels)))

\* the tags of the chunks of bytes from position pos on; a chunk cut off by
\* the end of bytes gives the tag -1
RECURSIVE chunk_tags(_, _)
chunk_tags(bytes, pos) ==
    IF pos > Len(bytes) THEN <<>>
    ELSE IF pos + ref_chunk_len(bytes[pos]) - 1 > Len(bytes) THEN <<-1>>
    ELSE <<bytes[pos]>> \o chunk_tags(bytes, pos + ref_chunk_len(bytes[pos]))

\* the pixels the chunks with these tags stand for
RECURSIVE tags_pixels(_)
tags_pixels(tags) ==
    IF tags = <<>> THEN 0 ELSE ref_chunk_count(Head(tags)) + tags_pixels(Tail(tags))

\* the image is more than 62 copies of one pixel
long_run_image ==
    /\ img.width > 62
    /\ \A k \in 1..Len(img.input) :
          img.input[k] = img.input[((k - 1) % img.channels) + 1]

\* the pixels after the first come out as runs, each but the last a full one
all_runs_capped(tags) ==
    /\ Len(tags) >= 2
    /\ \A j \in 2..Len(tags) : tags[j] >= 192 /\ tags[j] <= 253
    /\ \A j \in 2..(Len(tags) - 1) : tags[j] = 253

\* C20: the output is whole chunks that stand for exactly the pixels read so
\* far, no run byte being 0xFE or 0xFF (which would read as the tag of an
\* RGB or RGBA chunk); and more than 62 equal pixels come out as several run
\* chunks of at most 62 pixels that stand for all of them.
C20_RunLengthCap ==
    (enc_hist.op = "process" /\ enc_result.kind \in {"Finished", "Unfinished"})
        => /\ \A j \in 1..Len(chunk_tags(enc_bytes, 1)) : chunk_tags(enc_bytes, 1)[j] # -1
           /\ tags_pixels(chunk_tags(enc_bytes, 1))
                = img.width * img.height - enc.pixel_amount
           /\ (enc_result.kind = "Finished" /\ long_run_image) =>
                  all_runs_capped(chunk_tags(enc_bytes, 1))

\* 125 equal pixels came out as two runs of 62 and a run of 1
C20_Witness ==
    /\ enc_status = "Finished"
    /\ img.channels = 3 /\ img.width = 125 /\ long_run_image
    /\ enc_bytes = <<253, 253, 192>>

(***************************************************************************)
(* Output backpressure of the encoder: a call that stopped with free       *)
(* space left in the output array met a chunk that did not fit.            *)
(***************************************************************************)
\* the last call stopped before a chunk for which the array had no room
blocked_call ==
    /\ enc_hist.op = "process"
    /\ enc_result.kind = "Unfinished"
    /\ enc.output_buffer_space > 0

\* the encoder a call leaves when its output array is only as long as the
\* whole chunks the last call wrote, so that no further pixel is tried
stopped_before_pixel(e, input, written) ==
    internal_process_pixels(e, input, Repeat(0, written)).e

\* the chunk bytes the encoder in state e gives the pixel at its cursor
chunk_at_cursor(e, input) ==
    LET w == advanced(advance_input_pixel(e, input), input, Repeat(0, 5), 0)
    IN  Take(w.output, w.output_index)

\* C21: a call that stops for lack of output space met a chunk of 2, 4 or 5
\* bytes longer than the free space; it wrote whole chunks only, its cursor
\* is at the start of the pixel it could not encode, and cursor, dictionary,
\* previous pixel and pixel count are those of a call that never tried that
\* pixel; the next call's output starts with that pixel's chunk.
C21_BackpressureLeavesState ==
    /\ blocked_call =>
          /\ Len(chunk_at_cursor(enc, img.input)) \in {2, 4, 5}
          /\ Len(chunk_at_cursor(enc, img.input)) > enc.output_buffer_space
          /\ \A j \in 1..Len(chunk_tags(enc_drained(enc_result.output), 1)) :
                chunk_tags(enc_drained(enc_result.output), 1)[j] # -1
          /\ tags_pixels(chunk_tags(enc_drained(enc_result.output), 1))
                = enc_hist.pre.pixel_amount - enc.pixel_amount
          /\ enc.byte_index = pixel_width(enc) * (img.width * img.height - enc.pixel_amount)
          /\ [enc EXCEPT !.output_buffer_space = 0]
                = stopped_before_pixel(enc_hist.pre, img.input,
                                       enc_N - enc.output_buffer_space)
    /\ (/\ enc_hist.op = "process" /\ enc_result.kind \in {"Finished", "Unfinished"}
        /\ enc_hist.pre.output_buffer_space > 0)
          => IsPrefix(chunk_at_cursor(enc_hist.pre, img.input),
                      enc_drained(enc_result.output))

\* an RGBA chunk met one free byte of a 6-byte array and came out first in
\* the next call
C21_Witness ==
    /\ enc_hist.op = "process" /\ enc_N = 6
    /\ img.input = <<0, 0, 0, 222, 0, 0, 0, 255, 128, 128, 128, 255>>
    /\ enc_hist.pre.output_buffer_space = 1
    /\ enc_hist.pre.byte_index = 4
    /\ Take(enc_drained(enc_result.output), 5) = <<255, 0, 0, 0, 255>>

(***************************************************************************)
(* What process_pixels returns                                             *)
(***************************************************************************)
\* the bytes of the returned array before the reported free space
written_prefix(output) ==
    Take(output[1].bytes, Len(output[1].bytes) - output[1].empty)

\* C22: process_pixels returns Finished exactly when no pixel is left after
\* the call (the chunks drained so far then stand for every pixel of the
\* image) and Unfinished otherwise; the array has N bytes, the bytes before
\* the reported free space are the whole chunks of the pixels this call
\* consumed, and the bytes after them are as the caller passed them.
C22_ProgressAndFreeSpace ==
    (enc_hist.op = "process" /\ enc_result.kind \in {"Finished", "Unfinished"})
        => /\ (enc_result.kind = "Finished") <=> (enc.pixel_amount = 0)
           /\ (enc_result.kind = "Finished")
                 <=> (tags_pixels(chunk_tags(enc_bytes, 1)) = img.width * img.height)
           /\ Len(enc_result.output[1].bytes) = enc_N
           /\ enc_result.output[1].empty \in 0..enc_N
           /\ \A j \in 1..Len(chunk_tags(written_prefix(enc_result.output), 1)) :
                 chunk_tags(written_prefix(enc_result.output), 1)[j] # -1
           /\ tags_pixels(chunk_tags(written_prefix(enc_result.output), 1))
                 = enc_hist.pre.pixel_amount - enc.pixel_amount
           /\ \A j \in (enc_N - enc_result.output[1].empty + 1)..enc_N :
                 enc_result.output[1].bytes[j] = 0

\* the third call with a 6-byte array finished with an RGB chunk and two
\* free bytes
C22_Witness ==
    /\ enc_status = "Finished" /\ enc_N = 6 /\ enc_hist.calls = 3
    /\ img.input = <<0, 0, 0, 222, 0, 0, 0, 255, 128, 128, 128, 255>>
    /\ enc_result.output[1].empty = 2
    /\ enc_result.output[1].bytes = <<254, 128, 128, 128, 0, 0>>

(***************************************************************************)
(* Output arrays of any small length: the caller passes process_pixels an  *)
(* array of 0 .. MaxSmallOutput bytes.                                     *)
(***************************************************************************)
\* the longest of the small output arrays
MaxSmallOutput == 7

\* the images encoded into them have at most this many pixels
MaxSmallPixels == 3

SmallImages ==
    UNION { {image(input, 4) : input \in PixelSeqs(PaletteRGBA, n)} \cup
            {image(input, 3) : input \in PixelSeqs(PaletteRGB, n)} : n \in 1..MaxSmallPixels }

InitOut ==
    /\ overflow_checks \in BOOLEAN
    /\ hdr = no_header
    /\ px = no_pixels
    /\ \E i \in SmallImages, n \in 0..MaxSmallOutput : enc_start(i, n)
    /\ dec_idle

SpecOut == InitOut /\ [][NextEnc]_vars

\* C23: process_pixels with an array of fewer than 5 bytes returns
\* BufferTooSmall(N) and leaves the encoder as it was, no pixel consumed and
\* no byte produced; an array of 5 bytes or more is never turned away.
C23_BufferTooSmall ==
    enc_hist.op = "process" =>
        IF enc_N < 5
        THEN /\ enc_result.kind = "Err"
             /\ enc_result.error = QoiError("BufferTooSmall", <<enc_N>>)
             /\ enc = enc_hist.pre
             /\ enc.byte_index = 0 /\ enc.pixel_amount = img.width * img.height
             /\ enc_bytes = <<>>
        ELSE enc_result.kind # "Err"

\* an array of 3 bytes was turned away
C23_Witness ==
    /\ enc_hist.op = "process" /\ enc_N = 3
    /\ enc_result.kind = "Err"
    /\ enc_result.error = QoiError("BufferTooSmall", <<3>>)
    /\ enc.pixel_amount = 2

(***************************************************************************)
(* What a decoder drive step returns                                       *)
(***************************************************************************)
\* the pixels of the image the caller has not drained yet
pixels_owed == header_pixels(dec_header) - (Len(dec_pixels) \div 4)

\* C24: ContinueProcessing is returned only with pixels left to decode,
\* unread bytes in the input window and a full output window handed back
\* (valid byte count N); AwaitInput with pixels left is returned only with
\* the input window read to its end.
C24_ProgressVerdicts ==
    dec_hist.op \in {"feed", "continue"} =>
        /\ dec_result.kind = "ContinueProcessing" =>
              /\ dec.pixel_amount > 0
              /\ pixels_owed > 0
              /\ dec.input.index < dec.input.capacity
              /\ dec_result.output # None
              /\ dec_result.output[1].amount = dec_N
              /\ Len(dec_result.output[1].bytes) = dec_N
        /\ (dec_result.kind = "AwaitInput" /\ dec.pixel_amount # 0) =>
              dec.input.index = dec.input.capacity

\* a run of 5 filled a 16-byte window with one pixel owed and the end
\* marker unread
C24_Witness ==
    /\ dec_hist.op = "feed" /\ dec_N = 16
    /\ dec_stream = <<196>> \o END_MARKER
    /\ dec_result.kind = "ContinueProcessing"
    /\ dec_result.output[1].amount = 16
    /\ dec.pixel_amount = 1
    /\ dec.input.capacity - dec.input.index = 8

\* the pixels a step took off the remaining pixel count
pixels_produced == dec_hist.pre.pixel_amount - dec.pixel_amount

first_feed_of_whole_chunks ==
    /\ dec_hist.op = "feed"
    /\ dec_fed = Len(dec_hist.input)
    /\ dec_result.kind \in {"Finished", "AwaitInput", "ContinueProcessing"}
    /\ dec_hist.input # <<>>
    /\ \A j \in 1..Len(chunk_tags(dec_hist.input, 1)) : chunk_tags(dec_hist.input, 1)[j] # -1
    /\ 4 * tags_pixels(chunk_tags(dec_hist.input, 1)) <= dec_N
    /\ tags_pixels(chunk_tags(dec_hist.input, 1)) <= header_pixels(dec_header)

\* the tag of the last chunk of a slice of whole chunks
last_tag(input) == chunk_tags(input, 1)[Len(chunk_tags(input, 1))]

\* the pixels of a slice of whole chunks decoded from the start of an image
slice_reference(input) ==
    ref_decode(input, 1, DEFAULT_PIXEL, [i \in 0..63 |-> ZERO_PIXEL], <<>>,
               tags_pixels(chunk_tags(input, 1))).pixels

\* the step emitted every chunk of its slice, the last one included
slice_emitted ==
    /\ drained(dec_result.output) = slice_reference(dec_hist.input)
    /\ dec.pixel_amount
          = dec_hist.pre.pixel_amount - tags_pixels(chunk_tags(dec_hist.input, 1))
    /\ to_array(dec.previous_pixel)
          = SubSeq(slice_reference(dec_hist.input),
                   Len(slice_reference(dec_hist.input)) - 3,
                   Len(slice_reference(dec_hist.input)))
    /\ dec.seen_pixels[calculate_hash_index(dec.previous_pixel)] = dec.previous_pixel
    /\ dec.partial_chunk = None

\* C26: when a fed slice ends with the final body byte of an RGB or RGBA
\* chunk whose tag lies in the same slice, the step emits that chunk's
\* pixel: it is appended to the output, the pixel count is decremented,
\* dictionary slot and previous pixel are updated, no remainder is stored.
C26_ChunkEndingAtSliceEnd ==
    (first_feed_of_whole_chunks /\ last_tag(dec_hist.input) \in {254, 255})
        => slice_emitted

\* the body bytes a remainder still lacks
bytes_lacking(partial) == ref_chunk_len(get_tag(partial)) - Len(partial)

\* the remainder is the unfinished chunk the fed bytes end with
remainder_is_open_chunk(d) ==
    /\ d.input.index = d.input.capacity
    /\ get_tag(d.partial_chunk) >= 128
    /\ ~(get_tag(d.partial_chunk) >= 192 /\ get_tag(d.partial_chunk) <= 253)
    /\ bytes_lacking(d.partial_chunk) >= 1
    /\ Len(d.partial_chunk) <= dec_fed
    /\ SubSeq(dec_stream, dec_fed - Len(d.partial_chunk) + 1, dec_fed) = d.partial_chunk

\* C27 (I4): after a drive step a remainder is present only when the input
\* window ran out after the tag and before the final body byte of a chunk,
\* the remainder being that chunk's bytes so far; a feed that brings a
\* resumed chunk its final body byte produces its pixel, and when the
\* slice ends there no remainder is left.
C27_RemainderOnlyMidChunk ==
    (/\ dec_hist.op \in {"feed", "continue"}
     /\ dec_result.kind \in {"Finished", "AwaitInput", "ContinueProcessing"})
        => /\ dec.partial_chunk # None => remainder_is_open_chunk(dec)
           /\ (/\ dec_hist.op = "feed" /\ dec_hist.pre.partial_chunk # None
               /\ Len(dec_hist.input) >= bytes_lacking(dec_hist.pre.partial_chunk))
                 => /\ dec_hist.pre.pixel_amount - dec.pixel_amount >= 1
                    /\ Len(dec_hist.input) = bytes_lacking(dec_hist.pre.partial_chunk)
                          => dec.partial_chunk = None

\* the feed found the remainder of an RGB or RGBA chunk the bytes fed before
\* it ended with, and its slice is shorter than what the chunk lacks
resumed_and_still_open ==
    /\ dec_hist.op = "feed"
    /\ dec_result.kind \in {"Finished", "AwaitInput", "ContinueProcessing"}
    /\ dec_hist.pre.partial_chunk # None
    /\ get_tag(dec_hist.pre.partial_chunk) \in {254, 255}
    /\ dec_hist.pre.pixel_amount > 0
    /\ Len(dec_hist.pre.partial_chunk) <= dec_fed - Len(dec_hist.input)
    /\ SubSeq(dec_stream, dec_fed - Len(dec_hist.input) - Len(dec_hist.pre.partial_chunk) + 1,
              dec_fed - Len(dec_hist.input)) = dec_hist.pre.partial_chunk
    /\ Len(dec_hist.input) < bytes_lacking(dec_hist.pre.partial_chunk)

\* C28: when a feed resumes an RGB or RGBA chunk and ends before the chunk
\* is complete, the stored remainder is the earlier remainder followed by
\* the bytes of the slice in their order, and no pixel is produced.
C28_RemainderAccumulates ==
    resumed_and_still_open
        => /\ dec.partial_chunk = dec_hist.pre.partial_chunk \o dec_hist.input
           /\ dec.pixel_amount = dec_hist.pre.pixel_amount
           /\ dec_result.output = None

(***************************************************************************)
(* The dictionary and the previous pixel at suspension points, against the *)
(* pixels processed so far: those the decoder's caller drained, and the    *)
(* first pixels of the image the encoder has counted off.                  *)
(***************************************************************************)
\* the dictionary that holds, in each slot, the last of pixels that hashes
\* to it, and the zero pixel where none does
dictionary_of(pixels) ==
    [k \in 0..63 |->
        IF \E j \in 1..Len(pixels) : ref_hash(pixels[j]) = k
        THEN pixels[CHOOSE j \in 1..Len(pixels) :
                        /\ ref_hash(pixels[j]) = k
                        /\ \A later \in (j + 1)..Len(pixels) : ref_hash(pixels[later]) # k]
        ELSE ZERO_PIXEL]

\* the pixels the decoder has emitted
decoded_pixels == declared_pixels(dec_pixels, 4)

\* the pixels of the image the encoder has consumed
encoded_pixels ==
    SubSeq(declared_pixels(img.input, img.channels), 1,
           img.width * img.height - enc.pixel_amount)

dec_suspended ==
    /\ dec_hist.op \in {"init", "feed", "continue"}
    /\ dec_result.kind \in {"Init", "Finished", "AwaitInput", "ContinueProcessing"}

enc_suspended ==
    /\ enc_hist.op \in {"new", "process"}
    /\ enc_result.kind \in {"New", "Finished", "Unfinished"}

\* C29 (I1): at every suspension point of the decoder and of the encoder,
\* each of the 64 dictionary slots holds the zero pixel if no processed
\* pixel hashes to it, and otherwise the last processed pixel that does.
C29_DictionaryHoldsLatest ==
    /\ dec_suspended => dec.seen_pixels = dictionary_of(decoded_pixels)
    /\ enc_suspended => enc.seen_pixels = dictionary_of(encoded_pixels)

\* the last of the pixels, or the start value of the previous pixel
latest_of(pixels) ==
    IF Len(pixels) = 0 THEN Pixel_new(0, 0, 0, 255) ELSE pixels[Len(pixels)]

\* C30 (I2): at every suspension point the previous pixel is the pixel the
\* decoder emitted last, or the input pixel the encoder consumed last (a
\* pixel taken into a run included), or (0,0,0,255) before any pixel.
C30_PreviousIsLatest ==
    /\ dec_suspended => dec.previous_pixel = latest_of(decoded_pixels)
    /\ enc_suspended => enc.previous_pixel = latest_of(encoded_pixels)

(***************************************************************************)
(* Streams whose chunks stand for more pixels than the header declares:    *)
(* the caller's header gives any pixel count from 1 up to what the chunks  *)
(* hold.                                                                   *)
(***************************************************************************)
InitOverrun ==
    /\ overflow_checks \in BOOLEAN
    /\ hdr = no_header
    /\ px = no_pixels
    /\ \E cs \in ChunkSeqs(MaxChunks), n \in Capacities :
          /\ cs # <<>>
          /\ \E width \in 1..stream_pixels(cs), first \in {1, 4, Len(Flatten(cs))},
                block \in {1, MaxBlock} :
                dec_start(valid_header(width, 1, 4), n, Flatten(cs) \o END_MARKER,
                          first, block)
    /\ enc_idle

SpecOverrun == InitOverrun /\ [][NextDec]_vars

\* C31 (I5): at every suspension point of the decoder the pixels emitted so
\* far and the remaining pixel count add up to width * height, and the
\* remaining pixel count is not below zero, whatever the chunks are (a run
\* longer than the pixels still expected included).
C31_PixelCountConserved ==
    dec_suspended =>
        /\ Len(dec_pixels) \div 4 + dec.pixel_amount = header_pixels(dec_header)
        /\ dec.pixel_amount >= 0

(***************************************************************************)
(* Window capacities of every kind that QoiDecoder::init meets: multiples  *)
(* of 4 below and above 16, and the others on both sides of 16.            *)
(***************************************************************************)
WindowCapacities == {4, 8, 14, 16, 17, 18, 19, 20}

InitWindow ==
    /\ overflow_checks \in BOOLEAN
    /\ hdr = no_header
    /\ px = no_pixels
    /\ \E cs \in ChunkSeqs(MaxChunks), n \in WindowCapacities :
          /\ cs # <<>>
          /\ \E first \in {1, 4, Len(Flatten(cs))}, block \in {1, MaxBlock} :
                /\ first <= n
                /\ dec_start(valid_header(stream_pixels(cs), 1, 4), n,
                             Flatten(cs) \o END_MARKER, first, block)
    /\ enc_idle

SpecWindow == InitWindow /\ [][NextDec]_vars

\* append_bytes reached the end of the array in the middle of a pixel: the
\* write of the next byte is out of bounds (buffer.rs:49)
pixel_write_cut(d) ==
    d.panic /\ d.output.space = 0 /\ Len(d.output.data) % 4 # 0

\* C32: for every window capacity that QoiDecoder::init accepts, no feed and
\* no continue appends a pixel to an output window with fewer than 4 bytes
\* of space left: every 4-byte pixel write stays inside the window.
C32_PixelWritesInsideWindow ==
    dec_hist.op \in {"feed", "continue"} => ~pixel_write_cut(dec)

(***************************************************************************)
(* Where the encoder writes                                                *)
(***************************************************************************)
\* every iteration of the loop of process_pixels from w on starts with at
\* least one free byte (so that the unguarded one-byte writes of lines 132,
\* 139 and 197 are inside the array) and ends with the output index inside
\* the array or just behind it
RECURSIVE writes_inside(_, _)
wrote_inside(w, next, input) ==
    /\ w.output_index < Len(w.output)
    /\ next.output_index \in (w.output_index)..Len(w.output)
    /\ writes_inside(next, input)

writes_inside(w, input) ==
    IF w.brk \/ w.e.panic \/ w.e.pixel_amount = 0 THEN TRUE
    ELSE wrote_inside(w, advanced(advance_input_pixel(w.e, input), input, w.output,
                                  w.output_index), input)

\* C33: with an output array of N >= 5 bytes, every byte a process_pixels
\* call writes lands inside the array: each chunk starts with at least one
\* byte free, a chunk of several bytes is written only when all of it fits,
\* and the free space reported is between 0 and N.
C33_EncoderWritesInside ==
    (enc_hist.op = "process" /\ enc_N >= 5)
        => /\ writes_inside(Wrote(enc_hist.pre, Repeat(0, enc_N), 0, FALSE), img.input)
           /\ enc_result.kind \in {"Finished", "Unfinished"}
                 => /\ enc.output_buffer_space \in 0..enc_N
                    /\ Len(enc_result.output[1].bytes) = enc_N

\* a call on a 5-byte array that filled it to the last byte with one-byte
\* and two-byte chunks and stopped there with pixels left
C33_Witness ==
    /\ enc_hist.op = "process"
    /\ enc_N = 5
    /\ enc_result.kind = "Unfinished"
    /\ enc.output_buffer_space = 0
    /\ enc_hist.pre.pixel_amount - enc.pixel_amount >= 3

(***************************************************************************)
(* A caller that feeds the chunks in slices and then the end marker in a   *)
(* slice of its own, and goes on calling as long as the decoder lets it    *)
(* (lib.rs, the loop of the decoding example).                             *)
(***************************************************************************)
\* the caller's next slice: the slice of next_slice cut at the end of the
\* chunks, and the 8 bytes of the end marker once the chunks are fed
marker_slice(stream, fed, first, block) ==
    IF fed >= Len(stream) - 8 THEN SubSeq(stream, fed + 1, Len(stream))
    ELSE IF slice_end(stream, fed, first, block) > Len(stream) - 8
    THEN SubSeq(stream, fed + 1, Len(stream) - 8)
    ELSE next_slice(stream, fed, first, block)

\* ready.input_bytes_to_process(input) with the slices of marker_slice
DecFeedSlice ==
    /\ dec_status = "Ready"
    /\ dec_fed < Len(dec_stream)
    /\ LET input == marker_slice(dec_stream, dec_fed, dec_first, dec_block)
       IN  /\ dec_call("feed", input_bytes_to_process(dec, input), input)
           /\ dec_fed' = dec_fed + Len(input)
    /\ UNCHANGED <<overflow_checks, hdr, px, dec_header, dec_N, dec_stream, dec_first, dec_block,
                   enc_vars>>

InitLive ==
    /\ overflow_checks \in BOOLEAN
    /\ hdr = no_header
    /\ px = no_pixels
    /\ \E cs \in ChunkSeqs(MaxChunks), n \in Capacities :
          /\ cs # <<>>
          /\ \E first \in 1..Len(Flatten(cs)), block \in 1..MaxBlock :
                dec_start(valid_header(stream_pixels(cs), 1, 4), n,
                          Flatten(cs) \o END_MARKER, first, block)
    /\ enc_idle

NextLive == DecInit \/ DecFeedSlice \/ DecContinue

SpecLive == InitLive /\ [][NextLive]_vars /\ WF_vars(NextLive)

\* a continue call that returned a progress emitted a pixel or read a byte
continue_moved ==
    (dec_hist.op = "continue"
        /\ dec_result.kind \in {"AwaitInput", "ContinueProcessing", "Finished"})
        => \/ pixels_produced >= 1
           \/ dec.input.index > dec_hist.pre.input.index

\* the caller's loop can make a call: NextLive is enabled
caller_can_call ==
    \/ dec_status = "new"
    \/ dec_status = "Ready" /\ dec_fed < Len(dec_stream)
    \/ dec_status = "Continue" /\ dec.pixel_amount > -MaxOverrun

\* C34: every continue call emits at least one pixel or consumes at least
\* one input byte, and a well-formed stream fed in slices and followed by
\* its whole 8-byte end marker eventually yields Finished.  Every call moves
\* the decoder on, so a fair caller's loop comes to a state where no call is
\* left to make; the claim is stated on those states: the last call has
\* returned Finished.
C34_DecoderProgress ==
    /\ continue_moved
    /\ ~caller_can_call => dec_status = "Finished"

(***************************************************************************)
(* The encoder caller's loop comes to an end                               *)
(***************************************************************************)
\* C35: with an output array of N >= 5 bytes and the same pixel slice on
\* every call, each process_pixels call returns a progress and consumes at
\* least one pixel, so that the remaining pixel count strictly decreases,
\* no more than width * height calls are made, and the caller's loop ends
\* with Finished.
C35_EncoderProgress ==
    enc_N >= 5 =>
        /\ enc_hist.op = "process"
              => /\ enc_result.kind \in {"Finished", "Unfinished"}
                 /\ enc_hist.pre.pixel_amount - enc.pixel_amount >= 1
                 /\ enc.pixel_amount >= 0
                 /\ enc_hist.calls <= img.width * img.height
        /\ enc_status \notin {"new", "Ready"} => enc_status = "Finished"

(***************************************************************************)
(* Pixels on their own: a pixel and its predecessor are given to diff,     *)
(* luma and calculate_hash_index, and the chunks are decoded by the DIFF   *)
(* and LUMA arms of the decoder (pixel.rs, tests 78-177).                  *)
(***************************************************************************)
\* previous pixels at both ends of the byte range and inside it
OldPixels == {<<0, 0, 0>>, <<255, 255, 255>>, <<128, 1, 254>>}

\* channel differences on both sides of every limit of diff and luma
Deltas == {-41, -40, -33, -32, -9, -8, -3, -2, -1, 0, 1, 2, 7, 8, 31, 32, 38, 39}

Alphas == {0, 128, 255}

InitPixel ==
    /\ overflow_checks \in BOOLEAN
    /\ hdr = no_header
    /\ \E o \in OldPixels, dr \in Deltas, dg \in Deltas, db \in Deltas, a \in Alphas :
          px = [no_pixels EXCEPT
                   !.step = "new",
                   !.old = Pixel_new(o[1], o[2], o[3], a),
                   !.new = Pixel_new((o[1] + dr + 256) % 256, (o[2] + dg + 256) % 256,
                                     (o[3] + db + 256) % 256, a)]
    /\ dec_idle
    /\ enc_idle

\* new.diff(old), new.luma(old), new.calculate_hash_index()
PixelChunks ==
    /\ px.step = "new"
    /\ px' = [px EXCEPT !.step = "chunks",
                        !.diff = diff(px.new, px.old),
                        !.luma = luma(px.new, px.old),
                        !.hash = calculate_hash_index(px.new)]
    /\ UNCHANGED <<overflow_checks, hdr, dec_vars, enc_vars>>

\* the chunks decoded against the previous pixel by the arms of process_chunks
PixelDecode ==
    /\ px.step = "chunks"
    /\ px' = [px EXCEPT !.step = "decoded",
                        !.from_diff = IF px.diff = None THEN None
                                      ELSE <<diff_pixel(px.diff[1], px.old)>>,
                        !.from_luma = IF px.luma = None THEN None
                                      ELSE <<luma_pixel(px.luma[1], px.luma[2], px.old)>>]
    /\ UNCHANGED <<overflow_checks, hdr, dec_vars, enc_vars>>

NextPixel == PixelChunks \/ PixelDecode

SpecPixel == InitPixel /\ [][NextPixel]_vars

\* the difference of two channel values mod 256, as a number in -128..127
channel_diff(new, old) == ((new - old + 384) % 256) - 128

\* C36: for pixels with equal alpha, a byte returned by diff decodes as
\* QOI_OP_DIFF against the old pixel to the new pixel, and a byte pair
\* returned by luma decodes as QOI_OP_LUMA to the new pixel; diff returns a
\* byte exactly when every channel difference mod 256 is in -2..1, and luma
\* exactly when the green difference is in -32..31 and the red and the blue
\* difference minus the green difference are in -8..7.
C36_ChunkRoundTrip ==
    px.step = "decoded" =>
        /\ px.diff # None
              <=> /\ channel_diff(px.new.red, px.old.red) \in -2..1
                  /\ channel_diff(px.new.green, px.old.green) \in -2..1
                  /\ channel_diff(px.new.blue, px.old.blue) \in -2..1
        /\ px.luma # None
              <=> /\ channel_diff(px.new.green, px.old.green) \in -32..31
                  /\ channel_diff(px.new.red, px.old.red)
                        - channel_diff(px.new.green, px.old.green) \in -8..7
                  /\ channel_diff(px.new.blue, px.old.blue)
                        - channel_diff(px.new.green, px.old.green) \in -8..7
        /\ px.diff # None
              => /\ Len(px.diff) = 1
                 /\ px.diff[1] \in 64..127
                 /\ px.from_diff = <<px.new>>
        /\ px.luma # None
              => /\ Len(px.luma) = 2
                 /\ px.luma[1] \in 128..191
                 /\ px.luma[2] \in 0..255
                 /\ px.from_luma = <<px.new>>

\* after white, a pixel whose red is 1 more, green 7 more and blue 8 more,
\* all three wrapping around: too far for diff, inside luma
C36_Witness ==
    /\ px.step = "decoded"
    /\ px.old = Pixel_new(255, 255, 255, 255)
    /\ px.new = Pixel_new(0, 6, 7, 255)
    /\ px.diff = None
    /\ px.luma = <<167, 41>>
    /\ px.from_luma = <<px.new>>

\* 3r + 5g + 7b + 11a as an integer
weighted_sum(p) == 3 * p.red + 5 * p.green + 7 * p.blue + 11 * p.alpha

\* C37: calculate_hash_index returns (3r + 5g + 7b + 11a) mod 64, the sum
\* taken in full (no 8-bit overflow), a value in 0..63; (255,255,255,255)
\* hashes to 38 and (0,0,0,255) to 53.
C37_HashIndex ==
    px.step \in {"chunks", "decoded"} =>
        /\ px.hash \in 0..63
        /\ weighted_sum(px.new) \in 0..(26 * 255)
        /\ px.hash = weighted_sum(px.new) - 64 * (weighted_sum(px.new) \div 64)
        /\ px.new = Pixel_new(255, 255, 255, 255) => px.hash = 38
        /\ px.new = Pixel_new(0, 0, 0, 255) => px.hash = 53

C37_Witness ==
    /\ px.step = "chunks"
    /\ px.new = Pixel_new(255, 255, 255, 255)
    /\ px.hash = 38

(***************************************************************************)
(* A drive call that fails the end-marker verification                     *)
(***************************************************************************)
bad_end_marker ==
    /\ dec_hist.op \in {"feed", "continue"}
    /\ dec_result.kind = "Err"
    /\ dec_result.error.err \in {"BadEndMarkerSize", "BadEndMarkerBytes"}

dec_initial(d, pixels, n) ==
    /\ \A i \in 0..63 : d.seen_pixels[i] = Pixel_new(0, 0, 0, 0)
    /\ DOMAIN d.seen_pixels = 0..63
    /\ d.previous_pixel = Pixel_new(0, 0, 0, 255)
    /\ d.pixel_amount = pixels
    /\ d.run_amount = 0
    /\ d.partial_chunk = None
    /\ d.input.capacity = 0
    /\ d.input.index = 0
    /\ d.output.space = n
    /\ Len(d.output.data) = n

enc_initial(e, pixels) ==
    /\ \A i \in 0..63 : e.seen_pixels[i] = Pixel_new(0, 0, 0, 0)
    /\ DOMAIN e.seen_pixels = 0..63
    /\ e.previous_pixel = Pixel_new(0, 0, 0, 255)
    /\ e.pixel_amount = pixels
    /\ e.byte_index = 0

====
